---- MODULE Spec2Model ----
(***************************************************************************)
(* Model of the AI Commander plugin (AICommanderPlugin, latest variant):   *)
(* the command controller with its `writing` flag, the generation calls    *)
(* with their await points, and the streaming writer of generateText.      *)
(*                                                                         *)
(* Text is a sequence of characters (one-character strings; a longer       *)
(* string stands for an indivisible run of non-newline characters).  The   *)
(* document is a sequence of lines, each a sequence of characters; line    *)
(* numbers and columns are zero-based as in the editor API.                *)
(***************************************************************************)
EXTENDS Integers, Sequences, FiniteSets, TLC

(***************************************************************************)
(* Bounds of the model.                                                    *)
(***************************************************************************)
NumCalls == 2          \* command invocations in the controller specification
MaxFragments == 2      \* content events of one response in SpecStream
MaxCtlFragments == 1   \* content events of one response in Spec
MaxDocLines == 2       \* lines of the initial document in SpecStream
MaxResolverLines == 3  \* lines of the documents of SpecResolver
MaxPromptLines == 2    \* lines of a custom-command setting in SpecCommands

(***************************************************************************)
(* Strings.                                                                *)
(***************************************************************************)
NL == "\n"
EscNL == "\\n"         \* the JSON escape of a newline inside a string literal

Min(a, b) == IF a < b THEN a ELSE b
Max(a, b) == IF a > b THEN a ELSE b

IsSpace(c) == c \in {" ", NL}

RECURSIVE trimStart(_)
trimStart(s) ==
  IF s # <<>> /\ IsSpace(Head(s)) THEN trimStart(Tail(s)) ELSE s

RECURSIVE trimEnd(_)
trimEnd(s) ==
  IF s # <<>> /\ IsSpace(s[Len(s)]) THEN trimEnd(SubSeq(s, 1, Len(s) - 1)) ELSE s

\* String.prototype.trim
trim(s) == trimEnd(trimStart(s))

\* str.trim().length === 0
IsBlank(s) == Len(trim(s)) = 0

\* String.prototype.split('\n'): always at least one piece
RECURSIVE split(_)
split(t) ==
  IF t = <<>> THEN << <<>> >>
  ELSE LET r == split(Tail(t))
       IN IF Head(t) = NL THEN << <<>> >> \o r
          ELSE << <<Head(t)>> \o Head(r) >> \o Tail(r)

\* lines.join('\n')
RECURSIVE join(_)
join(ls) ==
  IF ls = <<>> THEN <<>>
  ELSE IF Len(ls) = 1 THEN ls[1]
  ELSE ls[1] \o <<NL>> \o join(Tail(ls))

\* accumulatedText.indexOf('\n\n'), zero-based, -1 when absent
RECURSIVE indexOfFrom(_, _)
indexOfFrom(s, i) ==
  IF i + 1 > Len(s) - 1 THEN -1
  ELSE IF s[i + 1] = NL /\ s[i + 2] = NL THEN i
  ELSE indexOfFrom(s, i + 1)

indexOfNLNL(s) == indexOfFrom(s, 0)

\* s.slice(from) with a zero-based start
sliceFrom(s, from) == SubSeq(s, from + 1, Len(s))

RECURSIVE flatten(_)
flatten(ss) == IF ss = <<>> THEN <<>> ELSE Head(ss) \o flatten(Tail(ss))

(***************************************************************************)
(* The editor (document buffer): Editor.lastLine, getLine, replaceRange,   *)
(* setLine.  Positions are clipped to the document as the editor does.     *)
(***************************************************************************)
lastLine(d) == Len(d) - 1

HasLine(d, n) == n \in 0..lastLine(d)

\* editor.getLine(n); an absent line reads as undefined, modelled by HasLine
getLine(d, n) == IF HasLine(d, n) THEN d[n + 1] ELSE <<>>

clipPos(d, pos) ==
  IF pos.line > lastLine(d) THEN [line |-> lastLine(d), ch |-> Len(d[Len(d)])]
  ELSE IF pos.line < 0 THEN [line |-> 0, ch |-> 0]
  ELSE [line |-> pos.line, ch |-> Max(0, Min(pos.ch, Len(d[pos.line + 1])))]

\* the session has not called editor.setCursor
NoCursor == [line |-> -1, ch |-> -1]

\* a write at line n of d names a line after the last
pastEnd(d, n) == n > lastLine(d)

\* editor.replaceRange(text, pos): insert text at pos
replaceRange(d, text, pos) ==
  LET p == clipPos(d, pos)
      ln == d[p.line + 1]
      pre == SubSeq(ln, 1, p.ch)
      post == SubSeq(ln, p.ch + 1, Len(ln))
      parts == split(text)
      n == Len(parts)
      new == IF n = 1 THEN << pre \o parts[1] \o post >>
             ELSE << pre \o parts[1] >> \o SubSeq(parts, 2, n - 1) \o << parts[n] \o post >>
  IN SubSeq(d, 1, p.line) \o new \o SubSeq(d, p.line + 2, Len(d))

\* editor.setLine(n, text): replace the content of line n by text
setLine(d, n, text) ==
  LET l == Min(Max(n, 0), lastLine(d))
  IN SubSeq(d, 1, l) \o split(text) \o SubSeq(d, l + 2, Len(d))

(***************************************************************************)
(* getNextNewLine and writeText.  Both return the new document, the line   *)
(* number the code returns, and pastEnd: whether one of their writes named *)
(* a line after the last line the document had at that write.              *)
(***************************************************************************)
\* getNextNewLine without the inserted line: it takes line + 1 as it is
getNextNewLine_NoInsert(d, line) == [doc |-> d, line |-> line + 1, pastEnd |-> FALSE]

\* getNextNewLine without the test for the last line
getNextNewLine_LastLineUntested(d, line) ==
  LET nextLineNonBlank == HasLine(d, line + 1) /\ ~IsBlank(getLine(d, line + 1))
      d1 == IF nextLineNonBlank
            THEN replaceRange(d, <<NL>>, [line |-> line, ch |-> Len(getLine(d, line))])
            ELSE d
  IN [doc |-> d1, line |-> line + 1, pastEnd |-> nextLineNonBlank /\ pastEnd(d, line)]

getNextNewLine(d, line) ==
  LET isLastLine == line = lastLine(d)
      nextLineNonBlank == HasLine(d, line + 1) /\ ~IsBlank(getLine(d, line + 1))
      inserts == isLastLine \/ nextLineNonBlank
      d1 == IF inserts
            THEN replaceRange(d, <<NL>>, [line |-> line, ch |-> Len(getLine(d, line))])
            ELSE d
  IN [doc |-> d1, line |-> line + 1, pastEnd |-> inserts /\ pastEnd(d, line)]

\* writeText setting line LnToWrite + 1 as it finds it
writeText_NextLineAsIs(d, LnToWrite, text) ==
  [doc |-> setLine(d, LnToWrite + 1, text), line |-> LnToWrite + 1,
   pastEnd |-> pastEnd(d, LnToWrite + 1)]

writeText(d, LnToWrite, text) ==
  LET r == getNextNewLine(d, LnToWrite)
  IN [doc |-> setLine(r.doc, r.line, text), line |-> r.line,
      pastEnd |-> r.pastEnd \/ pastEnd(r.doc, r.line)]

(***************************************************************************)
(* The event stream of the chat completion endpoint.  An event on the wire *)
(* is the field prefix "data:" followed by its payload and the delimiter   *)
(* of two newlines.  A JSON payload is modelled by its tokens: "{", then   *)
(* either the token "error" or the characters of delta.content (a newline  *)
(* escaped), then "}".                                                     *)
(***************************************************************************)
Structural == {"data:", "{", "}", "[DONE]", "error", NL, EscNL}

escape(text) == [i \in 1..Len(text) |-> IF text[i] = NL THEN EscNL ELSE text[i]]
unescape(toks) == [i \in 1..Len(toks) |-> IF toks[i] = EscNL THEN NL ELSE toks[i]]

ContentEvent(text) == [type |-> "content", content |-> text]
ErrorEvent == [type |-> "error", content |-> <<>>]
DoneEvent == [type |-> "done", content |-> <<>>]
MalformedEvent == [type |-> "malformed", content |-> <<>>]

DoneChunk == <<"data:", "[DONE]">>

Delimiter == <<NL, NL>>

\* the text of one event as the server writes it, delimiter included
EventText(ev) ==
  (CASE ev.type = "content" -> <<"data:", "{">> \o escape(ev.content) \o <<"}">>
     [] ev.type = "error" -> <<"data:", "{", "error", "}">>
     [] ev.type = "done" -> DoneChunk
     [] OTHER -> <<"data:", "{", "a">>) \o Delimiter

\* JSON.parse(jsonStr) and the fields the loop reads from the result
JSONparse(jsonStr) ==
  LET n == Len(jsonStr)
      body == SubSeq(jsonStr, 2, n - 1)
      wellFormed == /\ n >= 2
                    /\ jsonStr[1] = "{"
                    /\ jsonStr[n] = "}"
                    /\ \/ body = <<"error">>
                       \/ \A i \in 1..Len(body) : body[i] \notin Structural \ {EscNL}
  IN IF ~wellFormed THEN [ok |-> FALSE, error |-> FALSE, content |-> <<>>]
     ELSE IF body = <<"error">> THEN [ok |-> TRUE, error |-> TRUE, content |-> <<>>]
     ELSE [ok |-> TRUE, error |-> FALSE, content |-> unescape(body)]

(***************************************************************************)
(* The streaming writer of generateText.  A writer state w holds the       *)
(* document, cursorPos, accumulatedText, isDone and the error thrown (""   *)
(* when none).                                                             *)
(***************************************************************************)
\* writeContent with the column not restarted after a newline
writeContent_ColumnKept(w, content) ==
  LET contentLines == split(content)
      n == Len(contentLines)
  IN [w EXCEPT !.doc = replaceRange(w.doc, content, w.cursorPos),
               !.pastEnd = @ \/ pastEnd(w.doc, w.cursorPos.line),
               !.applied = @ \o content,
               !.editorCursor = [line |-> w.cursorPos.line + n - 1,
                                 ch |-> w.cursorPos.ch + Len(contentLines[n])],
               !.cursorPos = [line |-> w.cursorPos.line + n - 1,
                              ch |-> w.cursorPos.ch + Len(contentLines[n])]]

\* writeContent with the editor's cursor left where it was
writeContent_CursorLeft(w, content) ==
  LET contentLines == split(content)
      n == Len(contentLines)
      pos == IF n = 1
             THEN [line |-> w.cursorPos.line, ch |-> w.cursorPos.ch + Len(contentLines[1])]
             ELSE [line |-> w.cursorPos.line + n - 1, ch |-> Len(contentLines[n])]
  IN [w EXCEPT !.doc = replaceRange(w.doc, content, w.cursorPos),
               !.pastEnd = @ \/ pastEnd(w.doc, w.cursorPos.line),
               !.applied = @ \o content,
               !.cursorPos = pos]

\* lines 194-206: insert one content fragment, advance cursorPos and set the
\* editor's cursor; applied is the text of the fragments inserted so far
writeContent(w, content) ==
  LET contentLines == split(content)
      n == Len(contentLines)
      pos == IF n = 1
             THEN [line |-> w.cursorPos.line, ch |-> w.cursorPos.ch + Len(contentLines[1])]
             ELSE [line |-> w.cursorPos.line + n - 1, ch |-> Len(contentLines[n])]
  IN [w EXCEPT !.doc = replaceRange(w.doc, content, w.cursorPos),
               !.pastEnd = @ \/ pastEnd(w.doc, w.cursorPos.line),
               !.applied = @ \o content,
               !.cursorPos = pos,
               !.editorCursor = pos]

\* processChunk with the error object of the response not looked at
processChunk_ErrorIgnored(w, chunk) ==
  IF chunk # <<>> /\ Head(chunk) = "data:"
  THEN LET json == JSONparse(trim(Tail(chunk)))
       IN IF json.ok /\ ~json.error /\ json.content # <<>>
          THEN writeContent(w, json.content)
          ELSE w
  ELSE w

\* lines 178-209: one chunk that is not the end marker
processChunk(w, chunk) ==
  IF chunk # <<>> /\ Head(chunk) = "data:"
  THEN LET jsonStr == trim(Tail(chunk))
           json == JSONparse(jsonStr)
       IN IF jsonStr = <<>> THEN w
          ELSE IF ~json.ok THEN w
          ELSE IF json.error THEN [w EXCEPT !.error = "ProviderError"]
          ELSE IF json.content # <<>> THEN writeContent(w, json.content)
          ELSE w
  ELSE w

RECURSIVE processBuffer_NoCarry(_)
\* processBuffer without the buffer: what a read leaves incomplete is dropped
processBuffer_NoCarry(w) ==
  LET parsedIndex == indexOfNLNL(w.accumulatedText)
  IN IF parsedIndex = -1 THEN [w EXCEPT !.accumulatedText = <<>>]
     ELSE LET chunk == trim(SubSeq(w.accumulatedText, 1, parsedIndex))
              w1 == [w EXCEPT !.accumulatedText = sliceFrom(w.accumulatedText, parsedIndex + 2)]
          IN IF chunk = DoneChunk THEN [w1 EXCEPT !.isDone = TRUE]
             ELSE LET w2 == processChunk(w1, chunk)
                  IN IF w2.error # "" THEN w2 ELSE processBuffer_NoCarry(w2)

\* processBuffer leaving the loop after the first event of a read
processBuffer_OneEvent(w) ==
  LET parsedIndex == indexOfNLNL(w.accumulatedText)
  IN IF parsedIndex = -1 THEN w
     ELSE LET chunk == trim(SubSeq(w.accumulatedText, 1, parsedIndex))
              w1 == [w EXCEPT !.accumulatedText = sliceFrom(w.accumulatedText, parsedIndex + 2)]
          IN IF chunk = DoneChunk THEN [w1 EXCEPT !.isDone = TRUE]
             ELSE processChunk(w1, chunk)

RECURSIVE processBuffer_PastEndMarker(_)
\* processBuffer going on with the events that follow the end marker
processBuffer_PastEndMarker(w) ==
  LET parsedIndex == indexOfNLNL(w.accumulatedText)
  IN IF parsedIndex = -1 THEN w
     ELSE LET chunk == trim(SubSeq(w.accumulatedText, 1, parsedIndex))
              w1 == [w EXCEPT !.accumulatedText = sliceFrom(w.accumulatedText, parsedIndex + 2)]
          IN IF chunk = DoneChunk THEN [processBuffer_PastEndMarker(w1) EXCEPT !.isDone = TRUE]
             ELSE LET w2 == processChunk(w1, chunk)
                  IN IF w2.error # "" THEN w2 ELSE processBuffer_PastEndMarker(w2)

\* lines 168-210: the inner loop over the events complete in accumulatedText
RECURSIVE processBuffer(_)
processBuffer(w) ==
  LET parsedIndex == indexOfNLNL(w.accumulatedText)
  IN IF parsedIndex = -1 THEN w
     ELSE LET chunk == trim(SubSeq(w.accumulatedText, 1, parsedIndex))
              w1 == [w EXCEPT !.accumulatedText = sliceFrom(w.accumulatedText, parsedIndex + 2)]
          IN IF chunk = DoneChunk THEN [w1 EXCEPT !.isDone = TRUE]
             ELSE LET w2 == processChunk(w1, chunk)
                  IN IF w2.error # "" THEN w2 ELSE processBuffer(w2)

\* startWriting without the separator line before the generated text
startWriting_NoSeparator(d, currentLn) ==
  LET r == getNextNewLine(d, currentLn)
  IN [doc |-> r.doc,
      cursorPos |-> [line |-> r.line, ch |-> 0],
      pastEnd |-> r.pastEnd,
      applied |-> <<>>,
      editorCursor |-> NoCursor,
      accumulatedText |-> <<>>,
      isDone |-> FALSE,
      error |-> ""]

\* startWriting with the separator put in front of the invocation line
startWriting_AtInvocationLine(d, currentLn) ==
  LET r == getNextNewLine(d, currentLn)
  IN [doc |-> replaceRange(r.doc, <<NL>>, [line |-> currentLn, ch |-> 0]),
      cursorPos |-> [line |-> currentLn + 1, ch |-> 0],
      pastEnd |-> r.pastEnd \/ pastEnd(r.doc, currentLn),
      applied |-> <<>>,
      editorCursor |-> NoCursor,
      accumulatedText |-> <<>>,
      isDone |-> FALSE,
      error |-> ""]

\* lines 152-159: the insertion point, the separator line and the start of the loop
startWriting(d, currentLn) ==
  LET r == getNextNewLine(d, currentLn)
      lnToWrite == r.line
  IN [doc |-> replaceRange(r.doc, <<NL>>, [line |-> lnToWrite, ch |-> 0]),
      cursorPos |-> [line |-> lnToWrite + 1, ch |-> 0],
      pastEnd |-> r.pastEnd \/ pastEnd(r.doc, lnToWrite),
      applied |-> <<>>,
      editorCursor |-> NoCursor,
      accumulatedText |-> <<>>,
      isDone |-> FALSE,
      error |-> ""]

\* finishWriting without the trailing newline
finishWriting_NoNewline(w) == w

\* line 212: the trailing newline
finishWriting(w) ==
  [w EXCEPT !.doc = replaceRange(w.doc, <<NL>>, w.cursorPos),
            !.pastEnd = @ \/ pastEnd(w.doc, w.cursorPos.line)]

(***************************************************************************)
(* State.                                                                  *)
(***************************************************************************)
VARIABLES
  doc,        \* the editor's document
  writing,    \* AICommanderPlugin.writing
  settings,   \* AICommanderPlugin.settings (the fields the calls read)
  call,       \* one record per command invocation: its position and locals
  host        \* the application around the plugin: whether the plugin is enabled,
              \* the commands it has registered, its stored data

vars == <<doc, writing, settings, call, host>>

Calls == 1..NumCalls

NoPos == [line |-> 0, ch |-> 0]

\* findFilePath has not run
NotFound == [outcome |-> "none", index |-> 0 - 1, linkText |-> "", cursor |-> 0]

\* a command that has not been invoked yet
IdleCall ==
  [pc |-> "idle", kind |-> "none", prompt |-> <<>>, currentLn |-> 0,
   contextPrompt |-> <<>>, finalPrompt |-> <<>>, messages |-> <<>>, requests |-> <<>>,
   cursorPos |-> NoPos, accumulatedText |-> <<>>, error |-> "", notices |-> <<>>,
   wire |-> <<>>, sent |-> 0,
   \* history kept for the properties
   sentText |-> <<>>, sentEvents |-> <<>>, shape |-> "contents", start |-> 0,
   docAtStart |-> <<>>, pastEnd |-> FALSE, applied |-> <<>>, editorCursor |-> NoCursor,
   audioBuffer |-> <<>>, searchEndpoint |-> "", searched |-> "none",
   created |-> <<>>, markdown |-> <<>>,
   entered |-> "", improve |-> "none", found |-> NotFound, activeAtInvocation |-> FALSE]

\* the prompt as improvePrompt returns it
improved(prompt) == <<"+">> \o prompt

PdfContext == <<"pdf-context">>

Notice(c, msg) == [c EXCEPT !.notices = Append(@, msg)]
Request(c, service) == [c EXCEPT !.requests = Append(@, service)]
Throw(c, err) == [c EXCEPT !.pc = "rejected", !.error = err]

\* the last handler of a command has run: its locals are gone; what stays of the
\* invocation is what the user saw of it and the requests it sent
finish(c, msg) ==
  [IdleCall EXCEPT !.pc = "done", !.kind = c.kind, !.error = c.error,
                   !.notices = Append(c.notices, msg), !.requests = c.requests,
                   !.pastEnd = c.pastEnd]

\* a rejection that reaches no handler: nothing is shown
unhandled(c, err) ==
  [IdleCall EXCEPT !.pc = "unhandled", !.kind = c.kind, !.error = err,
                   !.notices = c.notices, !.requests = c.requests,
                   !.pastEnd = c.pastEnd]

\* failures of reading the response that do not come from its content
LocalFailures == {"NetworkFailure", "EditorError"}

(***************************************************************************)
(* generateText up to the response of the generation request, as the       *)
(* stages between its await points.  Each stage maps the call record to    *)
(* the record at the next await (or at the throw).                         *)
(***************************************************************************)

\* lines 116-135: the user message and the generation request
fetchStage(c) ==
  Request([c EXCEPT !.pc = "fetch",
                    !.messages = Append(@, [role |-> "user", content |-> c.finalPrompt])],
          "generate")

\* lines 359-394: searchText sends its request to the search API when
\* bingSearchKey has more than one character, and to the search page otherwise
searchText(c) ==
  Request([c EXCEPT !.pc = "searchText",
                    !.searchEndpoint = IF Len(settings.bingSearchKey) > 1 THEN "api" ELSE "page"],
          "search")

\* contextStage with the search tested before the context
contextStage_SearchFirst(c) ==
  IF settings.useSearchEngine THEN searchText(c)
  ELSE IF c.contextPrompt # <<>>
  THEN fetchStage([c EXCEPT !.messages = Append(@, [role |-> "system", content |-> c.contextPrompt])])
  ELSE fetchStage(c)

\* lines 96-114: the context entry, or the search request
contextStage(c) ==
  IF c.contextPrompt # <<>>
  THEN fetchStage([c EXCEPT !.messages = Append(@, [role |-> "system", content |-> c.contextPrompt])])
  ELSE IF settings.useSearchEngine THEN searchText(c)
  ELSE fetchStage(c)

\* generateTextEntry with the key tested after the prompt improvement is requested
generateTextEntry_KeyTestedLate(c0) ==
  LET c == [c0 EXCEPT !.finalPrompt = c0.prompt, !.entered = "generateText"]
  IN IF IsBlank(c.prompt) THEN Throw(c, "InvalidInput")
     ELSE IF settings.usePromptPerfect THEN Request([c EXCEPT !.pc = "improvePrompt"], "enhance")
     ELSE IF IsBlank(settings.apiKey) THEN Throw(c, "MissingCredential")
     ELSE contextStage(c)

\* lines 74-94: validation and the optional prompt improvement
generateTextEntry(c0) ==
  LET c == [c0 EXCEPT !.finalPrompt = c0.prompt, !.entered = "generateText"]
  IN IF IsBlank(c.prompt) THEN Throw(c, "InvalidInput")
     ELSE IF IsBlank(settings.apiKey) THEN Throw(c, "MissingCredential")
     ELSE IF settings.usePromptPerfect THEN Request([c EXCEPT !.pc = "improvePrompt"], "enhance")
     ELSE contextStage(c)

(***************************************************************************)
(* commandGenerateText and the continuations of generateText.              *)
(***************************************************************************)
\* the positions at which the next handler of a call is a microtask of the
\* step that brought the call there: the promise it is chained on is settled
\* already (findFilePath has no await), so no other handler runs before it
MicrotaskPcs == {"findFilePath", "outerCatch", "resolved", "rejected"}

\* invocation p can take the next step: no other invocation has a microtask pending
Turn(p) == \A q \in Calls : call[q].pc \in MicrotaskPcs => q = p

\* invocations are numbered in the order in which the user makes them
InOrder(p) == p > 1 => call[p - 1].pc # "idle"

\* the test of the flag left out
alreadyInProgress_Never(p) == FALSE

\* the commands' test of the flag: if (this.writing)
alreadyInProgress(p) == writing

\* a command turned away without a notice
turnedAway_Silent(c) ==
  [finish([c EXCEPT !.error = "AlreadyInProgress"], "AlreadyInProgress") EXCEPT !.notices = c.notices]

\* the outcome of a command turned away by the test
turnedAway(c) == finish([c EXCEPT !.error = "AlreadyInProgress"], "AlreadyInProgress")

\* lines 482-490: the command, up to the first await of generateText
CommandGenerateText(p, prompt, ln) ==
  /\ call[p].pc = "idle"
  /\ Turn(p)
  /\ InOrder(p)
  /\ HasLine(doc, ln)
  /\ LET c == [call[p] EXCEPT !.kind = "text", !.prompt = prompt, !.currentLn = ln]
     IN IF alreadyInProgress(p)
        THEN /\ call' = [call EXCEPT ![p] = turnedAway(c)]
             /\ UNCHANGED writing
        ELSE /\ writing' = TRUE
             /\ call' = [call EXCEPT ![p] =
                          generateTextEntry(Notice([c EXCEPT !.docAtStart = doc], "Generating"))]
  /\ UNCHANGED <<doc, settings, host>>

\* lines 88-93: improvePrompt settles; a failure keeps the original prompt
ImprovePromptReturn(p, ok) ==
  /\ call[p].pc = "improvePrompt"
  /\ Turn(p)
  /\ call[p].kind \in {"text", "pdf"}
  /\ call' = [call EXCEPT ![p] =
                IF ok THEN contextStage([call[p] EXCEPT !.finalPrompt = improved(call[p].prompt),
                                                        !.improve = "ok"])
                ELSE contextStage([call[p] EXCEPT !.improve = "failed"])]
  /\ UNCHANGED <<doc, writing, settings, host>>

\* lines 102-113: searchText settles; a failure is logged and the request goes without results
SearchTextReturn(p, ok) ==
  /\ call[p].pc = "searchText"
  /\ Turn(p)
  /\ call' = [call EXCEPT ![p] =
                IF ok
                THEN fetchStage([call[p] EXCEPT !.searched = "ok",
                                                 !.messages = Append(@, [role |-> "system", content |-> <<"search-results">>])])
                ELSE fetchStage([call[p] EXCEPT !.searched = "failed"])]
  /\ UNCHANGED <<doc, writing, settings, host>>

\* FetchReturn preparing the insertion point before it looks at the response
FetchReturn_WritesFirst(p, outcome) ==
  /\ call[p].pc = "fetch"
  /\ Turn(p)
  /\ LET w == startWriting(doc, call[p].currentLn)
     IN /\ doc' = w.doc
        /\ call' = [call EXCEPT ![p] =
                     IF outcome = "ok"
                     THEN [@ EXCEPT !.pc = "read", !.cursorPos = w.cursorPos,
                                    !.pastEnd = w.pastEnd,
                                    !.applied = w.applied,
                                    !.editorCursor = w.editorCursor,
                                    !.accumulatedText = w.accumulatedText,
                                    !.start = w.cursorPos.line]
                     ELSE Throw(@, outcome)]
  /\ UNCHANGED <<writing, settings, host>>

\* lines 126-159: the response of the generation request
FetchReturn(p, outcome) ==
  /\ call[p].pc = "fetch"
  /\ Turn(p)
  /\ \/ /\ outcome = "ok"
        /\ LET w == startWriting(doc, call[p].currentLn)
           IN /\ doc' = w.doc
              /\ call' = [call EXCEPT ![p] =
                           [@ EXCEPT !.pc = "read", !.cursorPos = w.cursorPos,
                                     !.pastEnd = w.pastEnd,
                                     !.applied = w.applied,
                                     !.editorCursor = w.editorCursor,
                                     !.accumulatedText = w.accumulatedText,
                                     !.start = w.cursorPos.line]]
     \/ /\ outcome \in {"ProviderError", "NetworkFailure", "NoReader"}
        /\ call' = [call EXCEPT ![p] = Throw(@, outcome)]
        /\ UNCHANGED doc
  /\ UNCHANGED <<writing, settings, host>>

\* the server writes one more event of the response, once the earlier events are
\* delivered up to their last delimiter: at most max content events, and at most
\* one event of another type before them or between them
ServerSend(p, ev, max) ==
  /\ call[p].pc = "read"
  /\ Turn(p)
  /\ Len(call[p].wire) <= Len(Delimiter)
  /\ IF ev.type = "content" THEN call[p].sent < max ELSE call[p].shape = "contents"
  /\ call' = [call EXCEPT ![p] =
       [@ EXCEPT !.wire = @ \o EventText(ev),
                 !.sentEvents = Append(@, ev),
                 !.sent = IF ev.type = "content" THEN @ + 1 ELSE @,
                 !.sentText = IF call[p].shape = "contents" /\ ev.type = "content"
                              THEN @ \o ev.content ELSE @,
                 !.shape = IF @ # "contents" THEN @
                           ELSE CASE ev.type = "content" -> "contents"
                                  [] ev.type = "done" -> "done"
                                  [] ev.type = "error" -> "error"
                                  [] OTHER -> "other"]]
  /\ UNCHANGED <<doc, writing, settings, host>>

\* the server writes a whole response at once: the fragments, then the end marker
ServerSendAll(p, fragments) ==
  /\ call[p].pc = "read"
  /\ Turn(p)
  /\ call[p].sent = 0
  /\ call[p].shape = "contents"
  /\ call[p].wire = <<>>
  /\ call' = [call EXCEPT ![p] =
       [@ EXCEPT !.wire = flatten([i \in 1..Len(fragments) |-> EventText(ContentEvent(fragments[i]))])
                          \o EventText(DoneEvent),
                 !.sent = Len(fragments),
                 !.sentEvents = [i \in 1..Len(fragments) |-> ContentEvent(fragments[i])] \o <<DoneEvent>>,
                 !.sentText = flatten(fragments),
                 !.shape = "done"]]
  /\ UNCHANGED <<doc, writing, settings, host>>

\* generateText returns or throws: the reader and the buffer are dropped
exitStream(c, w) ==
  [c EXCEPT !.wire = <<>>,
            !.accumulatedText = <<>>,
            !.cursorPos = w.cursorPos,
            !.pastEnd = w.pastEnd,
            !.applied = w.applied,
            !.editorCursor = w.editorCursor,
            !.error = w.error,
            !.pc = IF w.error # "" THEN "rejected" ELSE "resolved"]

\* lines 162-212: reader.read() resolves with the next k characters of the response
ReaderRead(p, k) ==
  /\ call[p].pc = "read"
  /\ Turn(p)
  /\ k \in 1..Len(call[p].wire)
  /\ LET c == call[p]
         w0 == [doc |-> doc, cursorPos |-> c.cursorPos, pastEnd |-> c.pastEnd,
                applied |-> c.applied, editorCursor |-> c.editorCursor,
                accumulatedText |-> c.accumulatedText \o SubSeq(c.wire, 1, k),
                isDone |-> FALSE, error |-> ""]
         w1 == processBuffer(w0)
         w == IF w1.error = "" /\ w1.isDone THEN finishWriting(w1) ELSE w1
     IN /\ doc' = w.doc
        /\ call' = [call EXCEPT ![p] =
             IF w.error # "" \/ w.isDone THEN exitStream(c, w)
             ELSE [c EXCEPT !.wire = sliceFrom(c.wire, k),
                            !.cursorPos = w.cursorPos,
                            !.pastEnd = w.pastEnd,
                            !.applied = w.applied,
                            !.editorCursor = w.editorCursor,
                            !.accumulatedText = w.accumulatedText]]
  /\ UNCHANGED <<writing, settings, host>>

\* lines 163-164, 212: reader.read() resolves with done, the response has ended
ReaderDone(p) ==
  /\ call[p].pc = "read"
  /\ Turn(p)
  /\ call[p].wire = <<>>
  /\ LET c == call[p]
         w == finishWriting([doc |-> doc, cursorPos |-> c.cursorPos, pastEnd |-> c.pastEnd,
                             applied |-> c.applied, editorCursor |-> c.editorCursor,
                             accumulatedText |-> c.accumulatedText,
                             isDone |-> FALSE, error |-> ""])
     IN /\ doc' = w.doc
        /\ call' = [call EXCEPT ![p] = exitStream(c, w)]
  /\ UNCHANGED <<writing, settings, host>>

\* line 163: reader.read() rejects; lines 195, 205: a document operation throws
ReaderFail(p, err) ==
  /\ call[p].pc = "read"
  /\ Turn(p)
  /\ call' = [call EXCEPT ![p] =
                exitStream(call[p], [cursorPos |-> call[p].cursorPos,
                                     pastEnd |-> call[p].pastEnd,
                                     applied |-> call[p].applied,
                                     editorCursor |-> call[p].editorCursor,
                                     error |-> err])]
  /\ UNCHANGED <<doc, writing, settings, host>>

\* lines 491-494: the then handler of commandGenerateText
TextThen(p) ==
  /\ call[p].pc = "resolved"
  /\ Turn(p)
  /\ call[p].kind = "text"
  /\ call' = [call EXCEPT ![p] = finish(@, "Completed")]
  /\ writing' = FALSE
  /\ UNCHANGED <<doc, settings, host>>

\* the catch handler without the reset of the flag
TextCatch_NoReset(p) ==
  /\ call[p].pc = "rejected"
  /\ Turn(p)
  /\ call[p].kind = "text"
  /\ call' = [call EXCEPT ![p] = finish(@, call[p].error)]
  /\ UNCHANGED <<doc, writing, settings, host>>

\* lines 495-499: the catch handler of commandGenerateText
TextCatch(p) ==
  /\ call[p].pc = "rejected"
  /\ Turn(p)
  /\ call[p].kind = "text"
  /\ call' = [call EXCEPT ![p] = finish(@, call[p].error)]
  /\ writing' = FALSE
  /\ UNCHANGED <<doc, settings, host>>

(***************************************************************************)
(* findFilePath.  A link is one cell of a line; a matcher of a command is  *)
(* the set of link cells its regular expression matches.  The documents    *)
(* findFilePath is run on have at most one link on a line, so that no      *)
(* match of an expression spans two links.                                 *)
(***************************************************************************)
WikiPdf == "![[a.pdf]]"
MdPdf == "![b](b.pdf)"
WikiAudio == "![[c.mp3]]"
MdAudio == "![d](d.wav)"

\* lines 308-320: the keys of mimeTypes, the file types generateTranscript knows
MimeTypeKeys == {"flac", "m4a", "mp3", "mp4", "mpeg", "mpga", "oga", "ogg", "wav", "webm", "mov"}

\* lines 554-555: the alternatives of the extension group of the two expressions
AudioRegexExtensions == {"flac", "m4a", "mp3", "mp4", "mpeg", "mpga", "oga", "ogg", "wav", "webm"}

\* an embedded link to an audio file of extension ext, in each of the two styles
WikiAudioLink(ext) == "![[c." \o ext \o "]]"
MdAudioLink(ext) == "![d](d." \o ext \o ")"

AudioLinkCells == {WikiAudioLink(ext) : ext \in MimeTypeKeys} \cup {MdAudioLink(ext) : ext \in MimeTypeKeys}

LinkCells == {WikiPdf, MdPdf} \cup AudioLinkCells

\* runs of plain text of ten and of nine characters, each one cell
X10 == "xxxxxxxxxx"
X9 == "xxxxxxxxx"

\* the number of characters of a cell
Width(cell) ==
  CASE cell \in {WikiPdf, WikiAudio} -> 10
    [] cell \in {MdPdf, MdAudio} -> 11
    [] cell \in AudioLinkCells -> Len(cell)
    [] cell = X10 -> 10
    [] cell = X9 -> 9
    [] OTHER -> 1

\* match[1]: the first capture group of a match
LinkText(cell) ==
  CASE cell = WikiPdf -> "a.pdf"
    [] cell = MdPdf -> "b.pdf"
    [] cell = WikiAudio -> "c.mp3"
    [] cell = MdAudio -> "d.wav"
    [] cell \in AudioLinkCells ->
         LET ext == CHOOSE e \in MimeTypeKeys : cell \in {WikiAudioLink(e), MdAudioLink(e)}
         IN IF cell = WikiAudioLink(ext) THEN "c." \o ext ELSE "d." \o ext
    [] OTHER -> ""

\* lines 504-507 and 553-556: the regexList of the two commands
PdfRegexList == << {WikiPdf}, {MdPdf} >>
AudioRegexList ==
  << {WikiAudioLink(ext) : ext \in AudioRegexExtensions},
     {MdAudioLink(ext) : ext \in AudioRegexExtensions} >>

RECURSIVE widthOf(_)
\* the number of characters of a text
widthOf(text) == IF text = <<>> THEN 0 ELSE Width(Head(text)) + widthOf(Tail(text))

\* editor.getValue()
getValue(d) == join(d)

RECURSIVE cellsBefore(_, _)
\* the number of cells of the text before line `line` (zero-based), newlines included
cellsBefore(d, line) == IF line = 0 THEN 0 ELSE cellsBefore(d, line - 1) + Len(d[line]) + 1

\* editor.posToOffset(pos): pos.ch counts the cells of the line before the cursor
posToOffset(d, pos) == widthOf(SubSeq(getValue(d), 1, cellsBefore(d, pos.line) + pos.ch))

Abs(n) == IF n < 0 THEN 0 - n ELSE n

\* closestMatch = null
NoMatch == [index |-> 0 - 1, linkText |-> ""]

RECURSIVE execFrom(_, _, _)
\* lines 415-418: the matches regex.exec finds from cell i on, in the order it finds them
execFrom(regex, text, i) ==
  IF i > Len(text) THEN <<>>
  ELSE IF text[i] \in regex
  THEN <<[index |-> widthOf(SubSeq(text, 1, i - 1)), linkText |-> LinkText(text[i])]>>
         \o execFrom(regex, text, i + 1)
  ELSE execFrom(regex, text, i + 1)

\* closer with a match at the same distance taking the place of the one found first
closer_LastWins(closestMatch, match, cursorOffset) ==
  IF \/ closestMatch = NoMatch
     \/ Abs(match.index - cursorOffset) <= Abs(closestMatch.index - cursorOffset)
  THEN match ELSE closestMatch

\* lines 421-431: the match kept after one more match is looked at
closer(closestMatch, match, cursorOffset) ==
  IF \/ closestMatch = NoMatch
     \/ Abs(match.index - cursorOffset) < Abs(closestMatch.index - cursorOffset)
  THEN match ELSE closestMatch

RECURSIVE scanMatches(_, _, _)
\* lines 415-432: the while loop over the matches of one expression
scanMatches(matches, closestMatch, cursorOffset) ==
  IF matches = <<>> THEN closestMatch
  ELSE scanMatches(Tail(matches), closer(closestMatch, Head(matches), cursorOffset), cursorOffset)

RECURSIVE scanRegexList(_, _, _, _)
\* lines 411-433: the for loop over the expressions
scanRegexList(regexList, text, closestMatch, cursorOffset) ==
  IF regexList = <<>> THEN closestMatch
  ELSE scanRegexList(Tail(regexList), text,
                     scanMatches(execFrom(Head(regexList), text, 1), closestMatch, cursorOffset),
                     cursorOffset)

\* what the vault answers about the active file and the linked file
VaultAnswers == {"ok", "NoActiveFile", "FileNotFound"}

\* lines 405-451: the path of the link nearest to the cursor, or the error thrown
findFilePath(d, cursorPosition, regexList, vault) ==
  LET cursorOffset == posToOffset(d, cursorPosition)
      closestMatch == scanRegexList(regexList, getValue(d), NoMatch, cursorOffset)
  IN [outcome |-> IF closestMatch = NoMatch THEN "NoLinkFound"
                  ELSE IF vault = "ok" THEN "path" ELSE vault,
      index |-> closestMatch.index,
      linkText |-> closestMatch.linkText,
      cursor |-> cursorOffset]

(***************************************************************************)
(* commandGenerateTextWithPdf and generateTextWithPdf.  findFilePath has   *)
(* no await: it runs to its result inside the command, and its result is   *)
(* one of the outcomes it can return or throw.                             *)
(***************************************************************************)
FindOutcomes == {"path", "NoLinkFound", "NoActiveFile", "FileNotFound"}

\* the results of findFilePath where the links of the document are left out
FindResults ==
  {[outcome |-> o, index |-> IF o = "NoLinkFound" THEN 0 - 1 ELSE 0,
    linkText |-> IF o = "NoLinkFound" THEN "" ELSE "a", cursor |-> 0] : o \in FindOutcomes}

\* lines 502-508: the command up to the settled promise of findFilePath
CommandGenerateTextWithPdf(p, prompt, ln, found) ==
  /\ call[p].pc = "idle"
  /\ Turn(p)
  /\ InOrder(p)
  /\ HasLine(doc, ln)
  /\ call' = [call EXCEPT ![p] =
       [@ EXCEPT !.kind = "pdf", !.prompt = prompt, !.currentLn = ln, !.found = found,
                 !.activeAtInvocation = writing,
                 !.pc = IF found.outcome = "path" THEN "findFilePath" ELSE "outerCatch",
                 !.error = IF found.outcome = "path" THEN "" ELSE found.outcome]]
  /\ UNCHANGED <<doc, writing, settings, host>>

\* lines 509-513: the then handler of findFilePath, up to the first await of generateTextWithPdf
PdfThen(p) ==
  /\ call[p].pc = "findFilePath"
  /\ Turn(p)
  /\ IF alreadyInProgress(p)
     THEN /\ call' = [call EXCEPT ![p] = [@ EXCEPT !.pc = "outerCatch", !.error = "AlreadyInProgress"]]
          /\ UNCHANGED writing
     ELSE /\ writing' = TRUE
          /\ call' = [call EXCEPT ![p] =
                       Notice([@ EXCEPT !.pc = "readBinary", !.docAtStart = doc], "Generating")]
  /\ UNCHANGED <<doc, settings, host>>

\* PdfOuterCatch resetting the flag as the inner catch handler does
PdfOuterCatch_FlagReset(p) ==
  /\ call[p].pc = "outerCatch"
  /\ Turn(p)
  /\ call[p].kind = "pdf"
  /\ call' = [call EXCEPT ![p] = finish(@, call[p].error)]
  /\ writing' = FALSE
  /\ UNCHANGED <<doc, settings, host>>

\* lines 524-527: the outer catch handler
PdfOuterCatch(p) ==
  /\ call[p].pc = "outerCatch"
  /\ Turn(p)
  /\ call[p].kind = "pdf"
  /\ call' = [call EXCEPT ![p] = finish(@, call[p].error)]
  /\ UNCHANGED <<doc, writing, settings, host>>

\* line 454: readBinary settles
PdfReadReturn(p, ok) ==
  /\ call[p].pc = "readBinary"
  /\ Turn(p)
  /\ call' = [call EXCEPT ![p] = IF ok THEN [@ EXCEPT !.pc = "pdfjs"] ELSE Throw(@, "FileReadError")]
  /\ UNCHANGED <<doc, writing, settings, host>>

\* lines 455-479: the text of the pages is extracted and generateText is called with it
PdfExtractReturn(p, ok) ==
  /\ call[p].pc = "pdfjs"
  /\ Turn(p)
  /\ call' = [call EXCEPT ![p] =
                IF ok THEN generateTextEntry([@ EXCEPT !.contextPrompt = PdfContext])
                ELSE Throw(@, "PdfError")]
  /\ UNCHANGED <<doc, writing, settings, host>>

\* lines 514-517: the inner then handler
PdfTextThen(p) ==
  /\ call[p].pc = "resolved"
  /\ Turn(p)
  /\ call[p].kind = "pdf"
  /\ call' = [call EXCEPT ![p] = finish(@, "Completed")]
  /\ writing' = FALSE
  /\ UNCHANGED <<doc, settings, host>>

\* lines 518-522: the inner catch handler
PdfTextCatch(p) ==
  /\ call[p].pc = "rejected"
  /\ Turn(p)
  /\ call[p].kind = "pdf"
  /\ call' = [call EXCEPT ![p] = finish(@, call[p].error)]
  /\ writing' = FALSE
  /\ UNCHANGED <<doc, settings, host>>

(***************************************************************************)
(* commandGenerateImage and generateImage.                                 *)
(***************************************************************************)
\* the markdown generateImage returns: a link and a newline
ImageText == <<"img", NL>>

\* lines 244-257: validation, and the prompt improvement or the image request
generateImageEntry(c0) ==
  LET c == [c0 EXCEPT !.finalPrompt = c0.prompt, !.entered = "generateImage"]
  IN IF Len(c.prompt) < 1 THEN Throw(c, "InvalidInput")
     ELSE IF Len(settings.apiKey) <= 1 THEN Throw(c, "MissingCredential")
     ELSE IF settings.usePromptPerfect THEN Request([c EXCEPT !.pc = "improvePrompt"], "enhance")
     ELSE Request([c EXCEPT !.pc = "createImage"], "image")

\* lines 530-538: the command, up to the first await of generateImage
CommandGenerateImage(p, prompt, ln) ==
  /\ call[p].pc = "idle"
  /\ Turn(p)
  /\ InOrder(p)
  /\ HasLine(doc, ln)
  /\ LET c == [call[p] EXCEPT !.kind = "image", !.prompt = prompt, !.currentLn = ln]
     IN IF alreadyInProgress(p)
        THEN /\ call' = [call EXCEPT ![p] = turnedAway(c)]
             /\ UNCHANGED writing
        ELSE /\ writing' = TRUE
             /\ call' = [call EXCEPT ![p] =
                          generateImageEntry(Notice([c EXCEPT !.docAtStart = doc], "Generating"))]
  /\ UNCHANGED <<doc, settings, host>>

\* lines 255-259: improvePrompt settles inside generateImage; its failure is not caught
ImageImproveReturn(p, ok) ==
  /\ call[p].pc = "improvePrompt"
  /\ Turn(p)
  /\ call[p].kind = "image"
  /\ call' = [call EXCEPT ![p] =
                IF ok
                THEN Request([@ EXCEPT !.pc = "createImage", !.improve = "ok",
                                       !.finalPrompt = improved(call[p].prompt)], "image")
                ELSE Throw([@ EXCEPT !.improve = "failed"], "EnhancerError")]
  /\ UNCHANGED <<doc, writing, settings, host>>

\* lines 259-274: the image request settles
CreateImageReturn(p, ok) ==
  /\ call[p].pc = "createImage"
  /\ Turn(p)
  /\ call' = [call EXCEPT ![p] = IF ok THEN [@ EXCEPT !.pc = "saveImage"] ELSE Throw(@, "ProviderError")]
  /\ UNCHANGED <<doc, writing, settings, host>>

\* the markdown generateImage returns for an image embedded as a data URI
InlineImageText == <<"data:image", NL>>

\* the storage call of generateImage that rejects, if one does
StorageFailures == {"none", "getAvailablePathForAttachments", "createFolder", "createBinary"}

\* lines 276-300: the storage calls of generateImage and the markdown it
\* returns.  hasDir: the path for the attachment has a folder part;
\* folderExists: that folder is in the vault.  created lists what the call
\* has created in the vault.
saveImage(c, failing, hasDir, folderExists) ==
  LET makesFolder == hasDir /\ ~folderExists
      c1 == IF makesFolder THEN [c EXCEPT !.created = Append(@, "folder")] ELSE c
  IN IF failing = "getAvailablePathForAttachments" THEN Throw(c, "StorageError")
     ELSE IF makesFolder /\ failing = "createFolder" THEN Throw(c, "StorageError")
     ELSE IF failing = "createBinary" THEN Throw(c1, "StorageError")
     ELSE [c1 EXCEPT !.created = Append(@, "file"),
                     !.markdown = IF settings.saveImg = "attachment"
                                  THEN ImageText ELSE InlineImageText,
                     !.pc = "resolved"]

\* lines 276-300: the storage calls settle and the markdown is returned
SaveImageReturn(p, failing, hasDir, folderExists) ==
  /\ call[p].pc = "saveImage"
  /\ Turn(p)
  /\ call' = [call EXCEPT ![p] = saveImage(@, failing, hasDir, folderExists)]
  /\ UNCHANGED <<doc, writing, settings, host>>

\* lines 539-543: the then handler; a throw of writeText passes to the catch handler
ImageThen(p, throws) ==
  /\ call[p].pc = "resolved"
  /\ Turn(p)
  /\ call[p].kind = "image"
  /\ IF throws
     THEN /\ call' = [call EXCEPT ![p] = Throw(@, "EditorError")]
          /\ UNCHANGED <<doc, writing>>
     ELSE /\ doc' = writeText(doc, call[p].currentLn, call[p].markdown).doc
          /\ call' = [call EXCEPT ![p] =
                        finish([@ EXCEPT !.pastEnd = writeText(doc, call[p].currentLn, call[p].markdown).pastEnd],
                               "Completed")]
          /\ writing' = FALSE
  /\ UNCHANGED <<settings, host>>

\* the catch handler of the image command without the reset of the flag
ImageCatch_NoReset(p) ==
  /\ call[p].pc = "rejected"
  /\ Turn(p)
  /\ call[p].kind = "image"
  /\ call' = [call EXCEPT ![p] = finish(@, call[p].error)]
  /\ UNCHANGED <<doc, writing, settings, host>>

\* lines 544-548: the catch handler
ImageCatch(p) ==
  /\ call[p].pc = "rejected"
  /\ Turn(p)
  /\ call[p].kind = "image"
  /\ call' = [call EXCEPT ![p] = finish(@, call[p].error)]
  /\ writing' = FALSE
  /\ UNCHANGED <<doc, settings, host>>

(***************************************************************************)
(* commandGenerateTranscript and generateTranscript.                       *)
(***************************************************************************)
TranscriptText == <<"t">>

\* lines 303-343: the key test and the transcription request
generateTranscriptEntry(c0) ==
  LET c == [c0 EXCEPT !.entered = "generateTranscript"]
  IN IF IsBlank(settings.apiKey) THEN Throw(c, "MissingCredential")
     ELSE Request([c EXCEPT !.pc = "transcribe"], "transcribe")

\* lines 551-557: the command up to the settled promise of findFilePath
CommandGenerateTranscript(p, ln, found) ==
  /\ call[p].pc = "idle"
  /\ Turn(p)
  /\ InOrder(p)
  /\ HasLine(doc, ln)
  /\ call' = [call EXCEPT ![p] =
       [@ EXCEPT !.kind = "transcript", !.currentLn = ln, !.found = found,
                 !.activeAtInvocation = writing,
                 !.pc = IF found.outcome = "path" THEN "findFilePath" ELSE "outerCatch",
                 !.error = IF found.outcome = "path" THEN "" ELSE found.outcome]]
  /\ UNCHANGED <<doc, writing, settings, host>>

\* lines 558-563: the then handler of findFilePath; the path it gets has an extension
TranscriptThen(p) ==
  /\ call[p].pc = "findFilePath"
  /\ Turn(p)
  /\ call[p].kind = "transcript"
  /\ call' = [call EXCEPT ![p] = [@ EXCEPT !.pc = "exists"]]
  /\ UNCHANGED <<doc, writing, settings, host>>

\* lines 587-590: the outer catch handler
TranscriptOuterCatch(p) ==
  /\ call[p].pc = "outerCatch"
  /\ Turn(p)
  /\ call[p].kind = "transcript"
  /\ call' = [call EXCEPT ![p] = finish(@, call[p].error)]
  /\ UNCHANGED <<doc, writing, settings, host>>

\* lines 563-565: exists settles; the throw of its handler reaches no catch handler
TranscriptExistsReturn(p, exists) ==
  /\ call[p].pc = "exists"
  /\ Turn(p)
  /\ call' = [call EXCEPT ![p] =
                IF exists THEN [@ EXCEPT !.pc = "readAudio"]
                ELSE unhandled(@, "FileNotFound")]
  /\ UNCHANGED <<doc, writing, settings, host>>

\* the contents readBinary can resolve with: a file of no bytes, a file with bytes
AudioBuffers == {<<>>, <<"bytes">>}

\* TranscriptReadReturn without the test of the flag
TranscriptReadReturn_FlagUntested(p, ok, audioBuffer) ==
  /\ call[p].pc = "readAudio"
  /\ Turn(p)
  /\ IF ~ok
     THEN /\ call' = [call EXCEPT ![p] = unhandled(@, "FileReadError")]
          /\ UNCHANGED writing
     ELSE /\ writing' = TRUE
          /\ call' = [call EXCEPT ![p] =
                       generateTranscriptEntry(Notice([@ EXCEPT !.docAtStart = doc,
                                                                !.audioBuffer = audioBuffer],
                                                      "Generating"))]
  /\ UNCHANGED <<doc, settings, host>>

\* lines 565-572: readBinary settles with audioBuffer (or rejects); the flag is
\* tested and generateTranscript is called
TranscriptReadReturn(p, ok, audioBuffer) ==
  /\ call[p].pc = "readAudio"
  /\ Turn(p)
  /\ IF ~ok
     THEN /\ call' = [call EXCEPT ![p] = unhandled(@, "FileReadError")]
          /\ UNCHANGED writing
     ELSE IF alreadyInProgress(p)
     THEN /\ call' = [call EXCEPT ![p] = turnedAway(call[p])]
          /\ UNCHANGED writing
     ELSE /\ writing' = TRUE
          /\ call' = [call EXCEPT ![p] =
                       generateTranscriptEntry(Notice([@ EXCEPT !.docAtStart = doc,
                                                                !.audioBuffer = audioBuffer],
                                                      "Generating"))]
  /\ UNCHANGED <<doc, settings, host>>

\* lines 330-356: the transcription request settles
TranscribeReturn(p, ok) ==
  /\ call[p].pc = "transcribe"
  /\ Turn(p)
  /\ call' = [call EXCEPT ![p] = IF ok THEN [@ EXCEPT !.pc = "resolved"] ELSE Throw(@, "ProviderError")]
  /\ UNCHANGED <<doc, writing, settings, host>>

\* lines 573-577: the then handler; a throw of writeText passes to the catch handler
TranscriptWrite(p, throws) ==
  /\ call[p].pc = "resolved"
  /\ Turn(p)
  /\ call[p].kind = "transcript"
  /\ IF throws
     THEN /\ call' = [call EXCEPT ![p] = Throw(@, "EditorError")]
          /\ UNCHANGED <<doc, writing>>
     ELSE /\ doc' = writeText(doc, call[p].currentLn, TranscriptText).doc
          /\ call' = [call EXCEPT ![p] =
                        finish([@ EXCEPT !.pastEnd = writeText(doc, call[p].currentLn, TranscriptText).pastEnd],
                               "Completed")]
          /\ writing' = FALSE
  /\ UNCHANGED <<settings, host>>

\* lines 578-582: the catch handler
TranscriptCatch(p) ==
  /\ call[p].pc = "rejected"
  /\ Turn(p)
  /\ call[p].kind = "transcript"
  /\ call' = [call EXCEPT ![p] = finish(@, call[p].error)]
  /\ writing' = FALSE
  /\ UNCHANGED <<doc, settings, host>>

(***************************************************************************)
(* onload, onunload and the settings tab: the commands the plugin          *)
(* registers.  A registered command is the argument of one addCommand      *)
(* call; the application drops the commands of a plugin it disables.       *)
(***************************************************************************)
\* lines 621-718: the commands onload registers whatever the settings
BuiltinCommands ==
  {[id |-> <<i>>, name |-> <<i>>, kind |-> "builtin"] :
     i \in {"text-prompt", "img-prompt", "text-line", "img-line", "text-selected",
            "img-selected", "audio-transcript", "pdf-prompt", "pdf-line", "pdf-selected"}}

\* String.prototype.toLowerCase, on the letters of the model
toLowerCase(ch) == IF ch = "A" THEN "a" ELSE ch

\* cidOf replacing nothing: the spaces stay in the identifier
cidOf_SpacesKept(command) == [i \in 1..Len(command) |-> toLowerCase(command[i])]

\* lines 723 and 743: command.toLowerCase().replace(/ /g, '-')
cidOf(command) == [i \in 1..Len(command) |-> IF command[i] = " " THEN "-" ELSE toLowerCase(command[i])]

RECURSIVE extraCommands_BlankKept(_, _)
\* extraCommands without the test that skips an empty line
extraCommands_BlankKept(lines, kind) ==
  IF lines = <<>> THEN {}
  ELSE LET command == trim(Head(lines))
       IN {[id |-> cidOf(command), name |-> command, kind |-> kind]}
            \cup extraCommands_BlankKept(Tail(lines), kind)

RECURSIVE extraCommands(_, _)
\* lines 720-737 and 740-752: the loop over the lines of one setting
extraCommands(lines, kind) ==
  IF lines = <<>> THEN {}
  ELSE LET command == trim(Head(lines))
       IN (IF Len(command) < 1 THEN {}
           ELSE {[id |-> cidOf(command), name |-> command, kind |-> kind]})
            \cup extraCommands(Tail(lines), kind)

\* lines 621-752: all the addCommand calls of onload
registeredBy(st) ==
  BuiltinCommands \cup extraCommands(split(st.promptsForSelected), "selected")
                  \cup extraCommands(split(st.promptsForPdf), "pdf")

\* the application after onload has run with the stored settings st
HostAfterOnload(st) == [enabled |-> TRUE, commands |-> registeredBy(st), data |-> st]

\* lines 616-759: the plugin is enabled: the stored settings are loaded, the flag
\* is reset and the commands are registered
Onload ==
  /\ ~host.enabled
  /\ settings' = host.data
  /\ writing' = FALSE
  /\ host' = HostAfterOnload(host.data)
  /\ UNCHANGED <<doc, call>>

\* line 761: the plugin is disabled; the application drops its commands
Onunload ==
  /\ host.enabled
  /\ \A p \in Calls : call[p].pc = "idle"
  /\ host' = [host EXCEPT !.enabled = FALSE, !.commands = {}]
  /\ UNCHANGED <<doc, writing, settings, call>>

\* lines 916-919: the text area of the commands for selected text is edited
ChangePromptsForSelected(value) ==
  /\ host.enabled
  /\ settings' = [settings EXCEPT !.promptsForSelected = value]
  /\ host' = [host EXCEPT !.data = settings']
  /\ UNCHANGED <<doc, writing, call>>

\* lines 929-932: the text area of the commands for PDF is edited
ChangePromptsForPdf(value) ==
  /\ host.enabled
  /\ settings' = [settings EXCEPT !.promptsForPdf = value]
  /\ host' = [host EXCEPT !.data = settings']
  /\ UNCHANGED <<doc, writing, call>>

(***************************************************************************)
(* Spec: the plugin after onload, NumCalls command invocations of any kind *)
(* interleaved at their await points.  A read delivers all that the server *)
(* has written; SpecStream cuts the reads at every position.               *)
(***************************************************************************)
\* the lines of the initial documents: empty, non-blank, blank but not empty
Lines == {<<>>, <<"x">>, <<" ">>}

Docs(n) == UNION {[1..k -> Lines] : k \in 1..n}

Fragments == {<<"a">>, <<NL>>, <<"b", NL, "a">>}

\* the response of the end-to-end scenario: "The", " sky\nis", " blue."
Scenario == << <<"The">>, <<" sky", NL, "is">>, <<" blue.">> >>

Events == {ContentEvent(f) : f \in Fragments} \cup {ErrorEvent, DoneEvent, MalformedEvent}

\* no response of the model is longer on the wire than the scenario's
MaxWire == Len(flatten([i \in 1..Len(Scenario) |-> EventText(ContentEvent(Scenario[i]))])) + Len(EventText(DoneEvent))

Question == <<"q">>

ApiKey == <<"s", "k">>

BingKey == <<"b", "k">>

\* lines 31-43: DEFAULT_SETTINGS, the fields the model reads
DefaultSettings ==
  [apiKey |-> <<>>, usePromptPerfect |-> FALSE, useSearchEngine |-> FALSE,
   bingSearchKey |-> <<>>, saveImg |-> "attachment", promptsForSelected |-> <<>>, promptsForPdf |-> <<>>]

Prompts == {<<>>, <<" ">>, Question}

CtlEvents == {ContentEvent(<<"a">>), ErrorEvent, DoneEvent}

\* lines 616-618: loadSettings, then writing = false
Init ==
  /\ doc = << <<"x">> >>
  /\ writing = FALSE
  /\ settings \in [apiKey : {<<>>, ApiKey}, usePromptPerfect : BOOLEAN, useSearchEngine : BOOLEAN,
                   bingSearchKey : {<<>>, BingKey}, saveImg : {"attachment"},
                   promptsForSelected : {<<>>}, promptsForPdf : {<<>>}]
  /\ call = [p \in Calls |-> IdleCall]
  /\ host = HostAfterOnload(settings)

\* a step of invocation p: a command, or the continuation of one at an await
Step(p) ==
  \/ \E prompt \in Prompts, ln \in 0..lastLine(doc) :
       \/ CommandGenerateText(p, prompt, ln)
       \/ CommandGenerateImage(p, prompt, ln)
       \/ \E found \in FindResults : CommandGenerateTextWithPdf(p, prompt, ln, found)
  \/ \E ln \in 0..lastLine(doc), found \in FindResults : CommandGenerateTranscript(p, ln, found)
  \/ \E ok \in BOOLEAN :
       \/ ImprovePromptReturn(p, ok)
       \/ SearchTextReturn(p, ok)
       \/ PdfReadReturn(p, ok)
       \/ PdfExtractReturn(p, ok)
       \/ ImageImproveReturn(p, ok)
       \/ CreateImageReturn(p, ok)
       \/ \E hasDir, folderExists \in BOOLEAN :
            SaveImageReturn(p, IF ok THEN "none" ELSE "createBinary", hasDir, folderExists)
       \/ ImageThen(p, ok)
       \/ TranscriptExistsReturn(p, ok)
       \/ \E audioBuffer \in AudioBuffers : TranscriptReadReturn(p, ok, audioBuffer)
       \/ TranscribeReturn(p, ok)
       \/ TranscriptWrite(p, ok)
  \/ \E o \in {"ProviderError", "NetworkFailure", "NoReader"} : FetchReturn(p, o)
  \/ FetchReturn(p, "ok")
  \/ \E ev \in CtlEvents : ServerSend(p, ev, MaxCtlFragments)
  \/ \E err \in LocalFailures : ReaderFail(p, err)
  \/ ReaderDone(p)
  \/ ReaderRead(p, Len(call[p].wire))
  \/ TextThen(p)
  \/ TextCatch(p)
  \/ PdfThen(p)
  \/ PdfOuterCatch(p)
  \/ PdfTextThen(p)
  \/ PdfTextCatch(p)
  \/ ImageCatch(p)
  \/ TranscriptThen(p)
  \/ TranscriptOuterCatch(p)
  \/ TranscriptCatch(p)

Next == \E p \in Calls : Step(p)

Spec == Init /\ [][Next]_vars

\* a continuation of invocation p: every step of it but the command itself
Continue(p) == call[p].pc # "idle" /\ Step(p)

\* the settings with which every await of the operations is reached: the
\* enhancer and the search are on, with or without the OpenAI key
LiveInit ==
  /\ doc = << <<"x">> >>
  /\ writing = FALSE
  /\ settings \in {[DefaultSettings EXCEPT !.apiKey = k, !.usePromptPerfect = TRUE,
                                           !.useSearchEngine = TRUE] : k \in {<<>>, ApiKey}}
  /\ call = [p \in Calls |-> IdleCall]
  /\ host = HostAfterOnload(settings)

\* every awaited call settles and the handler chained on it runs; the response
\* is finite, so the reader gets its end marker, its close or a failure. The
\* user is never obliged to invoke a command.
SpecLive == LiveInit /\ [][Next]_vars /\ \A p \in Calls : WF_vars(Continue(p))

(***************************************************************************)
(* SpecStream: one text generation, every document of up to MaxDocLines    *)
(* lines, every invocation line, every response of up to MaxFragments fragments  *)
(* cut into reads at every position.                                       *)
(***************************************************************************)
StreamInit ==
  /\ doc \in Docs(MaxDocLines)
  /\ writing = FALSE
  /\ settings = [DefaultSettings EXCEPT !.apiKey = ApiKey]
  /\ call = [p \in Calls |-> IdleCall]
  /\ host = HostAfterOnload(settings)

StreamNext ==
  \/ \E ln \in 0..lastLine(doc) : CommandGenerateText(1, Question, ln)
  \/ \E o \in {"ok", "ProviderError", "NetworkFailure", "NoReader"} : FetchReturn(1, o)
  \/ \E ev \in Events : ServerSend(1, ev, MaxFragments)
  \/ ServerSendAll(1, Scenario)
  \/ \E k \in 1..MaxWire : ReaderRead(1, k)
  \/ ReaderDone(1)
  \/ \E err \in LocalFailures : ReaderFail(1, err)
  \/ TextThen(1)
  \/ TextCatch(1)

SpecStream == StreamInit /\ [][StreamNext]_vars

(***************************************************************************)
(* Properties of the streaming writer (SpecStream).                        *)
(***************************************************************************)
\* generateText has returned or thrown and the handler of its promise is to run
Settled(c) == c.pc \in {"resolved", "rejected"}

\* generateText ran to its end without throwing
Completed(c) == c.pc = "resolved"

\* lines from..to of the document, zero-based and inclusive
Region(d, from, to) == SubSeq(d, from + 1, to + 1)

\* the text between the start of line `from` and the position pos
TextUpTo(d, from, pos) ==
  join(Region(d, from, pos.line - 1) \o << SubSeq(d[pos.line + 1], 1, pos.ch) >>)

\* C4: a response made of content fragments and then the end marker leaves, from
\* the write line on, lines that joined with newlines are the concatenation of
\* the fragments, whatever the fragments and whatever the cut of the reads.
C4_StreamFidelity ==
  \A p \in Calls :
    LET c == call[p]
        n == Len(split(c.sentText))
    IN (Completed(c) /\ c.shape = "done") =>
         /\ HasLine(doc, c.start + n - 1)
         /\ join(Region(doc, c.start, c.start + n - 1)) = c.sentText

C4_Witness ==
  \E p \in Calls :
    /\ Completed(call[p])
    /\ call[p].shape = "done"
    /\ call[p].sent = MaxFragments
    /\ Len(split(call[p].sentText)) >= 3

\* C5: while a session writes and when it has ended, every line that was non-blank when the
\* session began is still there with its content: at its place when it is at or
\* above the invocation line, at its distance from the end when it is below.
C5_InsertionPointSafety ==
  \A p \in Calls :
    LET c == call[p]
        orig == c.docAtStart
    IN \A i \in 1..Len(orig) :
         ~IsBlank(orig[i]) =>
           IF i <= c.currentLn + 1
           THEN i <= Len(doc) /\ doc[i] = orig[i]
           ELSE Len(doc) >= Len(orig) /\ doc[Len(doc) - (Len(orig) - i)] = orig[i]

C5_Witness ==
  \E p \in Calls :
    LET c == call[p]
    IN /\ c.pc = "read"
       /\ c.cursorPos.ch > 0
       /\ Len(c.docAtStart) > c.currentLn + 1
       /\ ~IsBlank(c.docAtStart[c.currentLn + 2])

\* C6: after a completed session the generated lines have a blank line directly
\* before them and a blank line directly after them; for the fragments
\* "The", " sky\nis", " blue." the generated lines are "The sky" and "is blue.".
C6_SeparatorShape ==
  \A p \in Calls :
    LET c == call[p]
        n == Len(split(c.sentText))
    IN (Completed(c) /\ c.shape \in {"contents", "done"}) =>
         /\ c.start >= 1
         /\ IsBlank(getLine(doc, c.start - 1))
         /\ Region(doc, c.start, c.start + n - 1) = split(c.sentText)
         /\ HasLine(doc, c.start + n)
         /\ IsBlank(getLine(doc, c.start + n))
         /\ c.sentText = flatten(Scenario) =>
              Region(doc, c.start - 1, c.start + 2)
                = << <<>>, <<"The", " sky">>, <<"is", " blue.">>, getLine(doc, c.start + 2) >>

C6_Witness ==
  \E p \in Calls :
    /\ Completed(call[p])
    /\ call[p].sentText = flatten(Scenario)
    /\ Len(call[p].docAtStart) > call[p].currentLn + 1

\* generateText has thrown the error of the response: the state of the document
C7_AbortState ==
  \A p \in Calls :
    LET c == call[p]
    IN (Settled(c) /\ c.shape = "error" /\ c.error \notin LocalFailures) =>
         /\ c.error = "ProviderError"
         /\ TextUpTo(doc, c.start, c.cursorPos) = c.sentText
         /\ IsBlank(SubSeq(doc[c.cursorPos.line + 1], c.cursorPos.ch + 1,
                           Len(doc[c.cursorPos.line + 1])))
         /\ Len(doc) = Len(c.docAtStart) + Len(split(c.sentText))
                         + (IF \/ c.currentLn = lastLine(c.docAtStart)
                                \/ ~IsBlank(getLine(c.docAtStart, c.currentLn + 1))
                            THEN 1 ELSE 0)

\* the step of the catch handler after that throw
C7_CatchStep ==
  \A p \in Calls :
    (call[p].pc = "rejected" /\ call[p].shape = "error" /\ call'[p] # call[p]) =>
       /\ call'[p].pc = "done"
       /\ call'[p].notices = Append(call[p].notices, call[p].error)
       /\ ~writing'
       /\ doc' = doc

\* C7: when the response carries an error object after content fragments, the
\* call ends with that error unless reading itself failed: what was written
\* before the error is in the document, nothing of what follows the error is,
\* and the catch handler shows the error, resets the flag and leaves the
\* document as it is.
C7_ErrorAbortKeepsPartial == []C7_AbortState /\ [][C7_CatchStep]_vars

C7_Witness ==
  \E p \in Calls :
    /\ call[p].pc = "done"
    /\ call[p].error = "ProviderError"
    /\ call[p].notices = <<"Generating", "ProviderError">>
    /\ Len(doc) >= 5

(***************************************************************************)
(* Properties of the controller and of the generation calls (Spec).        *)
(***************************************************************************)
\* the positions between the assignment writing = true and the handler that resets it
HoldingPcs ==
  {"improvePrompt", "searchText", "fetch", "read", "readBinary", "pdfjs",
   "createImage", "saveImage", "transcribe", "resolved", "rejected"}

Active(c) == c.pc \in HoldingPcs

Sent(c, service) == \E i \in 1..Len(c.requests) : c.requests[i] = service

TurnedAway(c) == c.error = "AlreadyInProgress"

\* C1: at most one invocation is between setting the flag and resetting it.
C1_SingleFlight == Cardinality({p \in Calls : Active(call[p])}) <= 1

C1_Witness ==
  \E p, q \in Calls :
    /\ call[p].kind = "pdf"
    /\ call[p].pc = "read"
    /\ call[q].kind = "image"
    /\ TurnedAway(call[q])

\* a step in which invocation p evaluates the test of the flag
AtCheck(p) ==
  \/ call[p].pc = "idle" /\ call'[p].kind \in {"text", "image"}
  \/ call[p].pc = "findFilePath" /\ call[p].kind = "pdf" /\ call'[p] # call[p]
  \/ call[p].pc = "readAudio" /\ call'[p].pc \notin {"readAudio", "unhandled"}

\* the step of a command that finds the flag set
C2_CheckStep ==
  \A p \in Calls :
    (AtCheck(p) /\ writing) =>
       /\ doc' = doc
       /\ writing'
       /\ TurnedAway(call'[p])
       /\ call'[p].requests = <<>>
       /\ \/ call'[p].pc = "done" /\ call'[p].notices = <<"AlreadyInProgress">>
          \/ call'[p].pc = "outerCatch" /\ call'[p].notices = <<>>

\* the steps of a command that was turned away
C2_AfterStep ==
  \A p \in Calls :
    (TurnedAway(call[p]) /\ call'[p] # call[p]) =>
       /\ call[p].pc = "outerCatch"
       /\ call'[p].pc = "done"
       /\ call'[p].notices = <<"AlreadyInProgress">>
       /\ call'[p].requests = <<>>
       /\ TurnedAway(call'[p])
       /\ doc' = doc
       /\ writing' = writing

\* C2: a command that tests the flag while it is set is turned away in that
\* step: the document, the flag and the requests are unchanged and the notice
\* is shown by that step or, for the PDF command, by the catch handler that
\* runs next; a command turned away does nothing else afterwards.
C2_TurnedAway == [][C2_CheckStep /\ C2_AfterStep]_vars

C2_Witness ==
  \E p, q \in Calls :
    /\ Active(call[p])
    /\ call[q].kind = "transcript"
    /\ call[q].pc = "done"
    /\ TurnedAway(call[q])

\* C3: the flag is false after onload, and whenever no invocation is between
\* setting it and the handler that resets it: every way out of an operation
\* (completion, a rejected call, a throw while the result is written) resets it.
C3_FlagReset == (\A p \in Calls : ~Active(call[p])) => ~writing

C3_Witness ==
  /\ \A p \in Calls : ~Active(call[p])
  /\ \E p \in Calls : call[p].kind \in {"image", "transcript"} /\ call[p].error = "EditorError"
  /\ \E p \in Calls : call[p].kind = "text" /\ call[p].error = "EditorError"

\* C8: a text generation that has a reference-document context sends no search
\* request, and its generation request carries the context entry and the
\* prompt only.
C8_ContextPrecedence ==
  \A p \in Calls :
    LET c == call[p]
    IN /\ c.kind = "pdf" => ~Sent(c, "search")
       /\ (c.contextPrompt # <<>> /\ Sent(c, "generate")) =>
            c.messages = << [role |-> "system", content |-> PdfContext],
                            [role |-> "user", content |-> c.finalPrompt] >>

C8_Witness ==
  \E p \in Calls :
    /\ settings.useSearchEngine
    /\ call[p].contextPrompt = PdfContext
    /\ call[p].pc = "read"

\* C9 as claimed: with an empty API key every generation call fails with the
\* missing-credential error and sends no request.
C9_Original ==
  \A p \in Calls :
    (settings.apiKey = <<>> /\ call[p].entered # "") =>
       /\ call[p].error = "MissingCredential"
       /\ call[p].requests = <<>>

\* the prompt test each generation call makes before it tests the key
PromptRefused(c) ==
  \/ c.entered = "generateText" /\ IsBlank(c.prompt)
  \/ c.entered = "generateImage" /\ Len(c.prompt) < 1

\* C9: with an empty API key no invocation ever sends a request, and a
\* generation call throws at once: the missing-credential error, or the
\* invalid-input error when its prompt is refused, the prompt being tested
\* first.
C9_CredentialGating ==
  settings.apiKey = <<>> =>
    \A p \in Calls :
      /\ call[p].requests = <<>>
      /\ call[p].entered # "" =>
           /\ call[p].pc = "rejected"
           /\ call[p].error = IF PromptRefused(call[p]) THEN "InvalidInput" ELSE "MissingCredential"

C9_Witness ==
  /\ settings.apiKey = <<>>
  /\ settings.usePromptPerfect
  /\ settings.useSearchEngine
  /\ \E p \in Calls : call[p].entered = "generateText" /\ call[p].error = "MissingCredential"
  /\ \E p \in Calls : call[p].kind = "transcript" /\ call[p].error = "MissingCredential"

\* C10 as claimed: after a failed prompt improvement the call goes on with the
\* original prompt: it does not end with the error of the improvement, and it
\* has sent its next request.
C10_EnhancerFallback ==
  \A p \in Calls :
    call[p].improve = "failed" =>
      /\ call[p].error # "EnhancerError"
      /\ call[p].finalPrompt = call[p].prompt
      /\ Len(call[p].requests) >= 2

(***************************************************************************)
(* SpecResolver: the two commands that resolve a link, on every document   *)
(* of up to MaxResolverLines lines with at most one link on a line and on  *)
(* the document of the nearest-match scenario, with the cursor at every    *)
(* cell boundary.                                                          *)
(***************************************************************************)
ResolverLines == {<<>>, <<"x">>, <<WikiPdf>>, <<"x", MdPdf>>, <<WikiAudio, "x">>, <<MdAudio>>}

\* links at the offsets 10, 50 and 90
ScenarioDoc == << <<X10, WikiPdf>>, <<X10, X10, X9, WikiPdf>>, <<X10, X10, X9, MdPdf>> >>

\* a line of text, then a line with one audio link: every extension, both styles
AudioLinkDocs == {<< <<"x">>, <<cell>> >> : cell \in AudioLinkCells}

ResolverDocs ==
  UNION {[1..k -> ResolverLines] : k \in 1..MaxResolverLines} \cup {ScenarioDoc} \cup AudioLinkDocs

ResolverInit ==
  /\ doc \in ResolverDocs
  /\ writing = FALSE
  /\ settings = [DefaultSettings EXCEPT !.apiKey = ApiKey]
  /\ call = [p \in Calls |-> IdleCall]
  /\ host = HostAfterOnload(settings)

\* lines 502-508: the PDF command with the cursor at cursorPosition
ResolvePdf(p, cursorPosition, vault) ==
  CommandGenerateTextWithPdf(p, Question, cursorPosition.line,
                             findFilePath(doc, cursorPosition, PdfRegexList, vault))

\* lines 551-557: the transcript command with the cursor at cursorPosition
ResolveAudio(p, cursorPosition, vault) ==
  CommandGenerateTranscript(p, cursorPosition.line,
                            findFilePath(doc, cursorPosition, AudioRegexList, vault))

\* the positions of the cursor: the cell boundaries of every line
CursorPositions(d) ==
  UNION {{[line |-> ln, ch |-> ch] : ch \in 0..Len(d[ln + 1])} : ln \in 0..lastLine(d)}

ResolverNext ==
  \/ \E pos \in CursorPositions(doc), vault \in VaultAnswers :
       ResolvePdf(1, pos, vault)
  \/ \E pos \in CursorPositions(doc), vault \in VaultAnswers :
       ResolveAudio(1, pos, vault)

SpecResolver == ResolverInit /\ [][ResolverNext]_vars

(***************************************************************************)
(* Properties of findFilePath (SpecResolver).                              *)
(***************************************************************************)
\* the matches of all the expressions of a command, in the order of the scan
MatchesOf(d, regexList) ==
  flatten([r \in 1..Len(regexList) |-> execFrom(regexList[r], getValue(d), 1)])

RegexListOf(c) == IF c.kind = "pdf" THEN PdfRegexList ELSE AudioRegexList

NextLineStart(d, line) ==
  widthOf(SubSeq(getValue(d), 1, Min(cellsBefore(d, line + 1), Len(getValue(d)))))

\* C12 as claimed: the link the transcript command takes does not stand below
\* the line of the cursor, and no audio link stands between it and the end of
\* that line.
C12_LastAudioAbove ==
  \A p \in Calls :
    LET c == call[p]
        ms == MatchesOf(doc, AudioRegexList)
    IN (c.kind = "transcript" /\ c.found.outcome = "path") =>
         /\ c.found.index < NextLineStart(doc, c.currentLn)
         /\ \A j \in 1..Len(ms) :
              ~(c.found.index < ms[j].index /\ ms[j].index < NextLineStart(doc, c.currentLn))

\* the audio links of the document
audioLinksIn(d) == {cell \in AudioLinkCells : \E i \in 1..Len(d) : \E j \in 1..Len(d[i]) : d[i][j] = cell}

\* C28: in a document with an embedded link, of either style, to a file whose
\* extension is one of flac, m4a, mp3, mp4, mpeg, mpga, oga, ogg, wav, webm and
\* mov, the transcript command finds a link: findFilePath does not fail for
\* want of a match.
C28_AllowListMatched ==
  \A p \in Calls :
    (call[p].kind = "transcript" /\ audioLinksIn(doc) # {}) =>
       call[p].found.outcome # "NoLinkFound"

(***************************************************************************)
(* Failures and late tests of the flag (Spec).                             *)
(***************************************************************************)
\* C13 as claimed: an invocation that has ended with an error has shown a
\* notice that carries the error.
C13_NoSilentFailure ==
  \A p \in Calls :
    LET c == call[p]
    IN (c.pc \in {"done", "unhandled"} /\ c.error # "") =>
         \E i \in 1..Len(c.notices) : c.notices[i] = c.error

\* C14 as claimed: an invocation made while a generation was active never
\* sets the flag for itself.
C14_NeverStarts ==
  \A p \in Calls : call[p].activeAtInvocation => ~Active(call[p])

(***************************************************************************)
(* SpecCommands: the plugin is enabled, its two custom-command settings    *)
(* are edited, it is disabled and enabled again.  A setting is a text of   *)
(* up to MaxPromptLines lines.                                             *)
(***************************************************************************)
\* the lines of a setting: blank, two names that differ in case only, a name with a space
PromptLines == {<<" ">>, <<"A">>, <<"a">>, <<"A", " ", "b">>}

PromptTexts == {<<>>} \cup {join(ls) : ls \in UNION {[1..k -> PromptLines] : k \in 1..MaxPromptLines}}

CommandsInit ==
  /\ doc = << <<"x">> >>
  /\ writing = FALSE
  /\ settings = DefaultSettings
  /\ call = [p \in Calls |-> IdleCall]
  /\ host = [enabled |-> FALSE, commands |-> {}, data |-> DefaultSettings]

CommandsNext ==
  \/ Onload
  \/ Onunload
  \/ \E value \in PromptTexts : ChangePromptsForSelected(value)
  \/ \E value \in PromptTexts : ChangePromptsForPdf(value)

SpecCommands == CommandsInit /\ [][CommandsNext]_vars

\* the custom commands that stand for the lines of the two settings of st
CustomCommandsFor(st) ==
  LET ls == split(st.promptsForSelected)
      lp == split(st.promptsForPdf)
  IN {[id |-> cidOf(trim(ls[i])), name |-> trim(ls[i]), kind |-> "selected"] :
        i \in {j \in 1..Len(ls) : ~IsBlank(ls[j])}}
     \cup
     {[id |-> cidOf(trim(lp[i])), name |-> trim(lp[i]), kind |-> "pdf"] :
        i \in {j \in 1..Len(lp) : ~IsBlank(lp[j])}}

\* the registered commands that are no built-in commands
CustomCommands(h) == {c \in h.commands : c.kind # "builtin"}

\* a step that leaves the plugin enabled leaves its commands as they are
C15_NoChangeWhileEnabled == (host.enabled /\ host'.enabled) => host'.commands = host.commands

\* a step that enables the plugin registers the commands of the stored lists
C15_ReloadRegisters ==
  (~host.enabled /\ host'.enabled) =>
     /\ CustomCommands(host') = CustomCommandsFor(host.data)
     /\ BuiltinCommands \subseteq host'.commands

\* C15: the custom commands are registered at activation only: editing the
\* two settings leaves the registered commands unchanged while the plugin
\* stays enabled, and when the plugin is enabled again its custom commands
\* are those of the non-blank lines of the two lists as stored.
C15_RegisteredAtActivation == [][C15_NoChangeWhileEnabled /\ C15_ReloadRegisters]_vars

C15_Witness ==
  /\ host.enabled
  /\ CustomCommands(host) # {}
  /\ host.data = settings
  /\ CustomCommandsFor(settings) # {}
  /\ CustomCommands(host) \cap CustomCommandsFor(settings) = {}

\* the lines of the setting that the commands of a kind are made of
LinesOf(st, kind) ==
  split(IF kind = "selected" THEN st.promptsForSelected ELSE st.promptsForPdf)

\* the step that enables the plugin: the commands registered for the lines
C29_ActivationStep ==
  (~host.enabled /\ host'.enabled) =>
     \A kind \in {"selected", "pdf"} :
       LET lines == LinesOf(host.data, kind)
           regs == {c \in host'.commands : c.kind = kind}
       IN /\ \A i \in 1..Len(lines) :
               ~IsBlank(lines[i]) => Cardinality({c \in regs : c.name = trim(lines[i])}) = 1
          /\ \A c \in regs :
               /\ c.name # <<>>
               /\ \E i \in 1..Len(lines) : c.name = trim(lines[i])
               /\ Len(c.id) = Len(c.name)
               /\ \A k \in 1..Len(c.name) :
                    c.id[k] = IF c.name[k] = " " THEN "-" ELSE toLowerCase(c.name[k])

\* C29: at activation every line of the two lists that is not blank after
\* trimming registers one command, named by the trimmed line, whose identifier
\* is the trimmed line in lower case with every space replaced by a hyphen; a
\* blank line registers nothing.
C29_LineToCommand == [][C29_ActivationStep]_vars

C29_Witness ==
  /\ host.enabled
  /\ host.commands = registeredBy(host.data)
  /\ \E c \in host.commands :
       c.kind = "pdf" /\ c.name = <<"A", " ", "b">> /\ c.id = <<"a", "-", "b">>
  /\ \E i \in 1..Len(LinesOf(host.data, "pdf")) : IsBlank(LinesOf(host.data, "pdf")[i])
  /\ Cardinality(CustomCommands(host)) = 2

\* C30: when every awaited call settles and the response ends, the read loop
\* of generateText is left and the flag set by an operation is reset: writing
\* leads to not writing, after which a command is accepted again.
C30_WritingIsReset ==
  writing ~> (~writing /\ \A p \in Calls : call[p].pc # "read")

\* a streamed generation ran to its end and gave the flag back, and the
\* invocation made after it was accepted
C30_Witness ==
  /\ call[1].pc = "done" /\ call[1].kind = "text"
  /\ \E i \in 1..Len(call[1].notices) : call[1].notices[i] = "Completed"
  /\ call[2].pc \notin {"idle", "done"}
  /\ call[2].error # "AlreadyInProgress"
  /\ writing

(***************************************************************************)
(* Properties of the streaming session while it runs (SpecStream).         *)
(***************************************************************************)
\* the fragments a response of the model is made of
AllFragments == Fragments \cup {Scenario[i] : i \in 1..Len(Scenario)}

\* the sequences of fragments that can be on their way to the reader
PendingSeqs == UNION {[1..k -> AllFragments] : k \in 0..Max(MaxFragments, Len(Scenario))}

\* the text of the content events of the fragments fs
Serialize(fs) == flatten([i \in 1..Len(fs) |-> EventText(ContentEvent(fs[i]))])

IsPrefix(a, b) == Len(a) <= Len(b) /\ SubSeq(b, 1, Len(a)) = a

\* the text the session has written: from the write line up to the cursor
Written(d, c) == TextUpTo(d, c.start, c.cursorPos)

\* between two reads no complete event waits in the buffer, and the text written
\* is the text of the response (up to its end marker) without the fragments not
\* yet received whole
C16_ReceivedSoFar ==
  \A p \in Calls :
    LET c == call[p]
    IN (c.pc = "read" /\ c.shape \in {"contents", "done"}) =>
         /\ indexOfNLNL(c.accumulatedText) = -1
         /\ \E fs \in PendingSeqs :
              /\ IF c.shape = "done"
                 THEN IsPrefix(Serialize(fs) \o EventText(DoneEvent), c.accumulatedText \o c.wire)
                 ELSE c.accumulatedText \o c.wire = Serialize(fs)
              /\ Written(doc, c) \o flatten(fs) = c.sentText

\* a step of the session adds to the end of what is written
C16_AppendOnly ==
  \A p \in Calls :
    (call[p].pc = "read" /\ call'[p].pc \in {"read", "resolved", "rejected"}) =>
       IsPrefix(Written(doc, call[p]), Written(doc', call'[p]))

\* C16: at every point of a streaming session the text written is the
\* concatenation, in the order of arrival, of the fragments received whole so
\* far: every read applies all the events it completes, and only adds to the
\* end of the text.
C16_ArrivalOrder == []C16_ReceivedSoFar /\ [][C16_AppendOnly]_vars

C16_Witness ==
  \E p \in Calls :
    LET c == call[p]
    IN /\ c.pc = "read"
       /\ c.sent = MaxFragments
       /\ Len(Written(doc, c)) >= 2
       /\ c.accumulatedText # <<>>
       /\ Len(Written(doc, c)) < Len(c.sentText)

RECURSIVE oneEventPerRead(_, _)
\* the session when every read delivers exactly one event and the response ends after the last
oneEventPerRead(w, events) ==
  IF events = <<>> THEN finishWriting(w)
  ELSE LET w1 == processBuffer([w EXCEPT !.accumulatedText = @ \o EventText(Head(events))])
       IN IF w1.error # "" THEN w1
          ELSE IF w1.isDone THEN finishWriting(w1)
          ELSE oneEventPerRead(w1, Tail(events))

\* C17: when generateText has returned, or thrown the error of the response,
\* the document is the one that the same events leave when each read delivers
\* exactly one event, however the reads have cut the response; and so is the
\* outcome of the call.
C17_CutIndependence ==
  \A p \in Calls :
    LET c == call[p]
        ref == oneEventPerRead(startWriting(c.docAtStart, c.currentLn), c.sentEvents)
    IN (Settled(c) /\ c.start > 0 /\ c.error \notin LocalFailures) =>
         /\ doc = ref.doc
         /\ c.error = ref.error
         /\ c.cursorPos = ref.cursorPos

C17_Witness ==
  \E p \in Calls :
    LET c == call[p]
        n == Len(c.accumulatedText)
    IN /\ c.pc = "read"
       /\ Len(Written(doc, c)) >= 1
       /\ n >= 2
       /\ c.accumulatedText[n] = NL
       /\ c.accumulatedText[n - 1] = "}"
       /\ c.wire # <<>>
       /\ Head(c.wire) = NL

RECURSIVE scanForBlank(_, _)
\* the forward scan of the earlier getNextNewLine: the first blank line at or
\* after line Ln, or the line after the last when there is none
scanForBlank(d, Ln) ==
  IF ~HasLine(d, Ln) THEN Ln
  ELSE IF IsBlank(getLine(d, Ln)) THEN Ln
  ELSE scanForBlank(d, Ln + 1)

\* the line that getNextNewLine has returned to a session that writes
insertionStart(c) == c.start - 1

\* C18: the insertion start line of a session is the first blank line at or
\* after the invocation line of the document as it was at the invocation, and
\* a line is added to the document for it only when no line from the invocation
\* line to the last is blank.
C18_FirstBlankLine ==
  \A p \in Calls :
    LET c == call[p]
        first == scanForBlank(c.docAtStart, c.currentLn)
        afterScan == getNextNewLine(c.docAtStart, c.currentLn).doc
    IN (c.kind = "text" /\ c.start > 0) =>
         /\ insertionStart(c) = first
         /\ Len(afterScan) = Len(c.docAtStart) + (IF HasLine(c.docAtStart, first) THEN 0 ELSE 1)

\* the number of newlines in text
newlines(text) == Cardinality({i \in 1..Len(text) : text[i] = NL})

\* C19: a completed session invoked on the last line of the document has made
\* the document longer by 3 + (the number of newlines in the generated text)
\* lines: the separator line, the generated lines and the trailing blank line.
C19_LastLineGrowth ==
  \A p \in Calls :
    LET c == call[p]
    IN (/\ Completed(c)
        /\ c.shape \in {"contents", "done"}
        /\ c.currentLn = lastLine(c.docAtStart)) =>
         /\ Len(doc) = Len(c.docAtStart) + 3 + newlines(c.sentText)
         /\ Len(split(c.sentText)) = newlines(c.sentText) + 1
         /\ Region(doc, c.currentLn + 1, lastLine(doc))
              = << <<>> >> \o split(c.sentText) \o << <<>> >>

C19_Witness ==
  \E p \in Calls :
    LET c == call[p]
    IN /\ Completed(c)
       /\ c.shape = "done"
       /\ c.currentLn = lastLine(c.docAtStart)
       /\ Len(c.docAtStart) = MaxDocLines
       /\ newlines(c.sentText) >= 2

\* the call is at the await after which it calls getNextNewLine
BeforeFirstWrite(c) ==
  \/ c.kind = "text" /\ c.pc = "fetch"
  \/ c.kind \in {"image", "transcript"} /\ c.pc = "resolved"

\* C20: no write of generateText, getNextNewLine or writeText has named a line
\* after the last line the document had at that write; and where the line
\* after the invocation line does not exist, getNextNewLine makes the document
\* longer by exactly one line before that line is written.
C20_WritesWithinDocument ==
  \A p \in Calls :
    LET c == call[p]
        r == getNextNewLine(doc, c.currentLn)
    IN /\ ~c.pastEnd
       /\ c.pc = "read" => HasLine(doc, c.cursorPos.line)
       /\ BeforeFirstWrite(c) =>
            /\ HasLine(doc, c.currentLn)
            /\ HasLine(r.doc, r.line)
            /\ ~r.pastEnd
            /\ Len(r.doc) \in {Len(doc), Len(doc) + 1}
            /\ ~HasLine(doc, c.currentLn + 1) => Len(r.doc) = Len(doc) + 1

C20_Witness ==
  \E p, q \in Calls :
    /\ call[p].pc = "done"
    /\ call[p].kind \in {"image", "transcript"}
    /\ call[p].error = ""
    /\ call[q].kind = "text"
    /\ call[q].pc = "resolved"
    /\ call[q].currentLn = lastLine(call[q].docAtStart)
    /\ call[q].sent >= 1

(***************************************************************************)
(* The write position of a streaming session (SpecStream).                 *)
(***************************************************************************)
\* the position that follows text when text starts at column 0 of line `from`
endOf(from, text) ==
  LET ls == split(text)
  IN [line |-> from + Len(ls) - 1, ch |-> Len(ls[Len(ls)])]

\* C21: between the reads of a streaming session and when it has ended,
\* cursorPos is the position that follows the fragments inserted so far: the
\* document holds their text from the write line up to cursorPos, cursorPos is
\* a position of the document, and once a fragment has been inserted the
\* editor's cursor was last set to cursorPos.
C21_CursorFollowsText ==
  \A p \in Calls :
    LET c == call[p]
    IN (c.kind = "text" /\ c.start > 0 /\ c.pc \in {"read", "resolved", "rejected"}) =>
         /\ c.cursorPos = endOf(c.start, c.applied)
         /\ HasLine(doc, c.cursorPos.line)
         /\ c.cursorPos.ch <= Len(getLine(doc, c.cursorPos.line))
         /\ TextUpTo(doc, c.start, c.cursorPos) = c.applied
         /\ c.editorCursor = IF c.applied = <<>> THEN NoCursor ELSE c.cursorPos

C21_Witness ==
  \E p \in Calls :
    LET c == call[p]
    IN /\ c.pc = "read"
       /\ c.sent = MaxFragments
       /\ newlines(c.applied) >= 1
       /\ c.cursorPos.ch > 0
       /\ c.editorCursor = c.cursorPos
       /\ c.wire # <<>>

\* the places of the malformed events in the response
malformedAt(events) == {i \in 1..Len(events) : events[i].type = "malformed"}

\* the text of the content events among the first n events
contentOf(events, n) == flatten([i \in 1..n |-> events[i].content])

\* C22: a response with a malformed event makes generateText throw, and no
\* fragment that follows the first malformed event is written to the document.
C22_MalformedAborts ==
  \A p \in Calls :
    LET c == call[p]
        at == malformedAt(c.sentEvents)
        first == CHOOSE i \in at : \A j \in at : i <= j
    IN (c.kind = "text" /\ at # {}) =>
         /\ IsPrefix(c.applied, contentOf(c.sentEvents, first))
         /\ c.pc # "resolved"

(***************************************************************************)
(* Validation of the inputs of the generation calls (Spec).                *)
(***************************************************************************)
\* the call was made with an empty prompt or an empty audio buffer
EmptyInput(c) ==
  \/ c.entered \in {"generateText", "generateImage"} /\ c.prompt = <<>>
  \/ c.entered = "generateTranscript" /\ c.audioBuffer = <<>>

\* C23: a generation call made with an empty prompt (generateText,
\* generateImage) or an empty audio buffer (generateTranscript) throws the
\* invalid-input error and sends no request.
C23_InputGating ==
  \A p \in Calls :
    EmptyInput(call[p]) =>
      /\ call[p].pc = "rejected"
      /\ call[p].error = "InvalidInput"
      /\ call[p].requests = <<>>

(***************************************************************************)
(* The web search of generateText (Spec).                                  *)
(***************************************************************************)
\* generateText has passed its validation with the search enabled, no context
\* and no search key
SearchWithoutKey(c) ==
  /\ c.entered = "generateText"
  /\ ~IsBlank(c.prompt)
  /\ ~IsBlank(settings.apiKey)
  /\ settings.useSearchEngine
  /\ c.contextPrompt = <<>>
  /\ Len(settings.bingSearchKey) <= 1

\* C24: with the search enabled, no context and no search key, generateText
\* sends neither the search request nor the generation request, and once the
\* prompt improvement is over it has thrown the missing-credential error.
C24_SearchKeyGating ==
  \A p \in Calls :
    LET c == call[p]
    IN SearchWithoutKey(c) =>
         /\ ~Sent(c, "search")
         /\ ~Sent(c, "generate")
         /\ c.pc # "improvePrompt" => (c.pc = "rejected" /\ c.error = "MissingCredential")

\* C25: a failed search makes generateText throw the error of the search: the
\* generation request is not sent, and the call ends with that error.
C25_SearchFailurePropagates ==
  \A p \in Calls :
    LET c == call[p]
    IN c.searched = "failed" =>
         /\ ~Sent(c, "generate")
         /\ c.pc = "rejected"
         /\ c.error = "SearchFailed"

(***************************************************************************)
(* The failures of findFilePath in the two commands that call it (Spec).   *)
(***************************************************************************)
\* the errors findFilePath throws: lines 436, 442, 446
ResolverErrors == {"NoLinkFound", "NoActiveFile", "FileNotFound"}

\* the command of c is in or past the outer catch handler with an error of findFilePath
ResolverFailed(c) ==
  /\ c.kind \in {"pdf", "transcript"}
  /\ c.pc \in {"outerCatch", "done"}
  /\ c.error \in ResolverErrors

\* no generation was started for the command
C27_NothingStarted ==
  \A p \in Calls :
    LET c == call[p]
    IN ResolverFailed(c) =>
         /\ c.entered = ""
         /\ c.requests = <<>>
         /\ c.notices = IF c.pc = "done" THEN <<c.error>> ELSE <<>>
         /\ (c.pc = "outerCatch" /\ ~c.activeAtInvocation) => ~writing

\* the steps that bring the command into the outer catch handler and out of it
C27_FailureStep ==
  \A p \in Calls :
    (ResolverFailed(call'[p]) /\ call'[p] # call[p]) =>
       /\ writing' = writing
       /\ doc' = doc
       /\ call[p].pc \in {"idle", "outerCatch"}
       /\ call[p].pc = "outerCatch" => call'[p].error = call[p].error

\* C27: findFilePath fails with one error for no match, one for no active file
\* and one for a link that names no file of the vault; the PDF command and the
\* transcript command then show that error, start no generation, send no
\* request, and leave the flag and the document as they were.
C27_ResolverFailures == []C27_NothingStarted /\ [][C27_FailureStep]_vars

C27_Witness ==
  \E p, q \in Calls :
    /\ call[q].pc \in HoldingPcs
    /\ writing
    /\ call[p].kind = "transcript"
    /\ call[p].pc = "done"
    /\ call[p].notices = <<"NoActiveFile">>

(***************************************************************************)
(* SpecImage: one image generation on every document of up to MaxDocLines  *)
(* lines, with both values of the Image Format setting, every vault        *)
(* situation and every failing storage call.                               *)
(***************************************************************************)
ImageInit ==
  /\ doc \in Docs(MaxDocLines)
  /\ writing = FALSE
  /\ settings \in {[DefaultSettings EXCEPT !.apiKey = ApiKey, !.usePromptPerfect = u, !.saveImg = s] :
                     u \in BOOLEAN, s \in {"attachment", "base64"}}
  /\ call = [p \in Calls |-> IdleCall]
  /\ host = HostAfterOnload(settings)

ImageNext ==
  \/ \E prompt \in Prompts, ln \in 0..lastLine(doc) : CommandGenerateImage(1, prompt, ln)
  \/ \E ok \in BOOLEAN : ImageImproveReturn(1, ok)
  \/ \E ok \in BOOLEAN : CreateImageReturn(1, ok)
  \/ \E failing \in StorageFailures, hasDir, folderExists \in BOOLEAN :
       SaveImageReturn(1, failing, hasDir, folderExists)
  \/ \E throws \in BOOLEAN : ImageThen(1, throws)
  \/ ImageCatch(1)

SpecImage == ImageInit /\ [][ImageNext]_vars

\* C26: generateImage returns the link of the mode the setting names; in
\* base64 mode it has created no file and no folder in the vault, in
\* attachment mode it has created exactly one file.
C26_SaveMode ==
  \A p \in Calls :
    LET c == call[p]
        files == {i \in 1..Len(c.created) : c.created[i] = "file"}
    IN (c.kind = "image" /\ c.pc = "resolved") =>
         IF settings.saveImg = "attachment"
         THEN c.markdown = ImageText /\ Cardinality(files) = 1
         ELSE c.markdown = InlineImageText /\ c.created = <<>>

(***************************************************************************)
(* Who writes to the document, and what a session leaves of it (Spec).     *)
(***************************************************************************)
\* a step that changes the document
C31_MutationStep ==
  doc' # doc =>
    /\ writing
    /\ \E p \in Calls :
         /\ Active(call[p])
         /\ call'[p] # call[p]
         /\ \A q \in Calls \ {p} : ~Active(call[q]) /\ call'[q] = call[q]

\* C31: every change of the document (the line of getNextNewLine, the
\* separator, a fragment, the trailing newline, the line of writeText) is made
\* while writing is true, by a step of the one invocation that is between
\* setting the flag and resetting it.
C31_OnlyTheHolderWrites == [][C31_MutationStep]_vars

\* a streamed generation has written to the document while a transcript
\* command, invoked meanwhile, waits for its file
C31_Witness ==
  \E p, q \in Calls :
    /\ call[p].pc = "read" /\ call[p].applied # <<>>
    /\ doc # call[p].docAtStart
    /\ call[q].kind = "transcript" /\ call[q].pc = "readAudio"
    /\ writing

\* generateText has thrown before line 152: at its tests of the prompt and of
\* the key, or at the response of the generation request
FailedBeforeStream(c) ==
  /\ c.entered = "generateText"
  /\ c.pc = "rejected"
  /\ c.start = 0
  /\ c.error \in {"InvalidInput", "MissingCredential", "ProviderError", "NetworkFailure", "NoReader"}

\* the document is the one the command found
C32_Untouched ==
  \A p \in Calls : FailedBeforeStream(call[p]) => doc = call[p].docAtStart

\* the catch handler that runs next leaves it so
C32_CatchStep ==
  \A p \in Calls :
    (FailedBeforeStream(call[p]) /\ call'[p] # call[p]) => doc' = doc /\ call'[p].pc = "done"

\* C32: when generateText fails before the stream starts (empty prompt,
\* missing key, a failed or non-success generation request, no reader), the
\* document is as the command found it, and its catch handler leaves it so:
\* no line is inserted and no separator written.
C32_EarlyFailureLeavesDocument == []C32_Untouched /\ [][C32_CatchStep]_vars

\* a generation with a question and a key got a response without a reader,
\* after an earlier invocation had written to the document
C32_Witness ==
  \E p \in Calls :
    /\ FailedBeforeStream(call[p])
    /\ call[p].error = "NoReader"
    /\ Sent(call[p], "generate")
    /\ Len(call[p].docAtStart) > 1

\* a transcript or PDF command has taken its line from the cursor and has not
\* yet tested the flag
Waiting(c) ==
  /\ c.kind \in {"transcript", "pdf"}
  /\ c.pc \in {"findFilePath", "exists", "readAudio"}

\* C33: between the moment a transcript or PDF command takes its line and the
\* moment it sets the flag, no step changes the document: the line refers to
\* the document the session writes to.
C33_LineStaysValid == [][(\E p \in Calls : Waiting(call[p])) => doc' = doc]_vars

\* the same for the PDF command alone
C33_PdfLineStaysValid ==
  [][(\E p \in Calls : Waiting(call[p]) /\ call[p].kind = "pdf") => doc' = doc]_vars

(***************************************************************************)
(* The end marker of the response (SpecStream).                            *)
(***************************************************************************)
doneAt(events) == {i \in 1..Len(events) : events[i].type = "done"}

\* what the session has inserted is text of events that precede the first end
\* marker, and all of it once generateText has returned
C34_OnlyBeforeMarker ==
  \A p \in Calls :
    LET c == call[p]
        at == doneAt(c.sentEvents)
        first == CHOOSE i \in at : \A j \in at : i <= j
    IN (c.kind = "text" /\ at # {}) =>
         /\ IsPrefix(c.applied, contentOf(c.sentEvents, first))
         /\ c.pc = "resolved" => c.applied = contentOf(c.sentEvents, first)

\* the read that consumes the end marker inserts the fragments it found before
\* the marker and the trailing newline, and nothing is written after it
C34_MarkerStep ==
  \A p \in Calls :
    LET c == call[p]
        added == SubSeq(call'[p].applied, Len(c.applied) + 1, Len(call'[p].applied))
        w0 == [doc |-> doc, cursorPos |-> c.cursorPos, pastEnd |-> c.pastEnd,
               applied |-> c.applied, editorCursor |-> c.editorCursor,
               accumulatedText |-> <<>>, isDone |-> FALSE, error |-> ""]
    IN /\ (c.pc = "read" /\ call'[p].pc = "resolved") =>
            doc' = finishWriting(IF added = <<>> THEN w0 ELSE writeContent(w0, added)).doc
       /\ c.pc = "resolved" => doc' = doc

\* C34: once the end marker is consumed no fragment is written any more, also
\* when events follow it in the same read: the session's text is the text of
\* the events before the marker, and the only change of the document after
\* the last of them is the one trailing newline.
C34_NothingAfterEndMarker == []C34_OnlyBeforeMarker /\ [][C34_MarkerStep]_vars

\* generateText has returned on a response in which a content event follows
\* the end marker
C34_Witness ==
  \E p \in Calls :
    LET c == call[p]
    IN /\ c.pc = "resolved"
       /\ c.applied # <<>>
       /\ \E i, j \in 1..Len(c.sentEvents) :
            i < j /\ c.sentEvents[i].type = "done" /\ c.sentEvents[j].type = "content"

(***************************************************************************)
(* The line writeText sets for an image or a transcript (Spec).            *)
(***************************************************************************)
\* the then handler of an image or transcript command writes its result
C35_WriteStep ==
  \A p \in Calls :
    LET c == call[p]
        ln == c.currentLn
        lines == split(IF c.kind = "image" THEN c.markdown ELSE TranscriptText)
        m == Len(lines)
        blankFollows == HasLine(doc, ln + 1) /\ IsBlank(getLine(doc, ln + 1))
        \* the lines of doc that are not the one set: all of them when a line is inserted
        kept == IF blankFollows
                THEN SubSeq(doc, 1, ln + 1) \o SubSeq(doc, ln + 3, Len(doc))
                ELSE doc
    IN (c.pc = "resolved" /\ c.kind \in {"image", "transcript"} /\ doc' # doc) =>
         /\ HasLine(doc, ln)
         /\ Len(doc') = Len(kept) + m
         /\ SubSeq(doc', 1, ln + 1) = SubSeq(kept, 1, ln + 1)
         /\ SubSeq(doc', ln + 2, ln + 1 + m) = lines
         /\ SubSeq(doc', ln + 2 + m, Len(doc')) = SubSeq(kept, ln + 2, Len(kept))

\* C35: writeText replaces no non-blank line: the result takes the place of
\* the blank line that followed the target line, or of a line inserted after
\* the target line when the next line is non-blank or absent; all other lines
\* keep their content and their order.
C35_NoLineOverwritten == [][C35_WriteStep]_vars

\* an image and a transcript were written, one of them in front of a
\* non-blank line
C35_Witness ==
  /\ \A p \in Calls : call[p].pc = "done" /\ call[p].error = ""
  /\ {call[p].kind : p \in Calls} = {"image", "transcript"}
  /\ \E i \in 1..Len(doc) - 1 :
       doc[i] = TranscriptText /\ ~IsBlank(doc[i + 1])

(***************************************************************************)
(* What a streaming session leaves of the document (SpecStream).           *)
(***************************************************************************)
\* the document of a session whose stream has started, running or ended, is
\* the lines up to the invocation line, the separator, the lines of the text
\* inserted so far, and the lines that were below
C36_OneBlockBelow ==
  \A p \in Calls :
    LET c == call[p]
        orig == c.docAtStart
        ln == c.currentLn
        blankFollows == HasLine(orig, ln + 1) /\ IsBlank(getLine(orig, ln + 1))
        \* the blank line the text is written into: what it held stays behind the text
        rest == IF blankFollows THEN getLine(orig, ln + 1) ELSE <<>>
        below == IF blankFollows THEN SubSeq(orig, ln + 3, Len(orig))
                 ELSE SubSeq(orig, ln + 2, Len(orig))
        text == c.applied \o (IF c.pc = "resolved" THEN <<NL>> ELSE <<>>) \o rest
    IN (c.kind = "text" /\ c.start > 0 /\ c.pc \in {"read", "resolved", "rejected"}) =>
         doc = SubSeq(orig, 1, ln + 1) \o << <<>> >> \o split(text) \o below

\* the handlers that run when generateText has settled leave the document as it is
C36_SettledStep ==
  \A p \in Calls : (call[p].kind = "text" /\ Settled(call[p])) => doc' = doc

\* C36: a streaming session, completed or aborted, inserts only below the
\* invocation line: the lines up to that line are as before, the separator
\* and the generated text are one block of lines after it, and the lines that
\* were below follow the block with their content and in their order.
C36_InsertsBelowOnly == []C36_OneBlockBelow /\ [][C36_SettledStep]_vars

\* a session aborted by an error event after text of more than one line,
\* invoked above a non-blank line
C36_Witness ==
  \E p \in Calls :
    LET c == call[p]
    IN /\ c.pc = "rejected" /\ c.error = "ProviderError"
       /\ newlines(c.applied) >= 1
       /\ c.currentLn < lastLine(c.docAtStart)
       /\ ~IsBlank(getLine(c.docAtStart, c.currentLn + 1))

====
